---- MODULE Spec2Model ----
(***************************************************************************)
(* Model of MultiDimensionalAnalyzer                                       *)
(* (skills/code-refactoring-analysis/scripts/analyze_multidim.py).         *)
(*                                                                         *)
(* Several state machines share the module:                                *)
(*   Spec       analyze(): the five dimension analyses in their fixed      *)
(*              order, then _calculate_overall_health,                     *)
(*              _generate_priority_actions and _finalize_meta;             *)
(*   SpecCycle  _detect_circular_dependencies: the loop over the modules   *)
(*              of an import graph, one DFS root per step;                 *)
(*   SpecScore  analyze_performance, analyze_security and                 *)
(*              analyze_scalability, each on findings of a wide range;     *)
(*   SpecRuns   analyzers constructed and analyze() called, each call one  *)
(*              step, on a project whose files and tool outputs are fixed; *)
(*   SpecGod    _find_god_classes, one file per step;                      *)
(*   SpecDup    _detect_duplicates_with_hashing, one file per step;        *)
(*   SpecDead   _detect_dead_code, one file per step, then the pass over   *)
(*              the definitions;                                           *)
(*   SpecSolid  _find_tight_coupling, _find_ocp_violations and             *)
(*              _find_dip_violations on one list of files, one file per    *)
(*              step.                                                      *)
(*                                                                         *)
(* Numbers that are floats in the program are kept as integers: a weight   *)
(* and the confidence are in hundredths.                                   *)
(***************************************************************************)
EXTENDS Integers, Sequences, FiniteSets, TLC

VARIABLES
    \* ---- analyze() ----
    dimensions,       \* self.dimensions: the requested list
    pc,               \* position inside analyze()
    tools_used,       \* self.tools_used
    tools_failed,     \* self.tools_failed: list of [tool, reason]
    files_analyzed,   \* self.files_analyzed
    files_skipped,    \* self.files_skipped
    results,          \* self.results
    \* ---- _detect_circular_dependencies() ----
    import_graph,     \* the dict module -> imports, in insertion order
    cd_pc,            \* "loop", "returned" or "raised"
    root_i,           \* position of the for loop over import_graph
    visited,          \* the visited set
    rec_stack,        \* the rec_stack set
    circular_deps,    \* the list being returned
    dfs_log,          \* every dfs() call that went past both early returns
    \* ---- the project analyze() is run on, and what its calls returned ----
    env,              \* the file tree and the outputs of the external tools
    calls,            \* the number of analyze() calls made
    reports,          \* what the analyze() calls returned, in order
    \* ---- the detectors that loop over python_files ----
    python_files,     \* the list the detector is called with
    scan_pc,          \* "loop", "definitions" or "returned"
    file_i,           \* position of `for py_file in python_files`
    god_classes,      \* the list _find_god_classes builds
    duplicates,       \* the list _detect_duplicates_with_hashing builds
    block_hashes,     \* its dict hash -> list of [file, line]
    dead_code,        \* the list _detect_dead_code builds
    all_definitions,  \* its dict of function and class definitions
    all_usages,       \* its set of used names
    coupling_issues,  \* the list _find_tight_coupling builds
    ocp_violations,   \* the list _find_ocp_violations builds
    dip_violations    \* the list _find_dip_violations builds

vars == <<dimensions, pc, tools_used, tools_failed, files_analyzed,
          files_skipped, results, import_graph, cd_pc, root_i, visited,
          rec_stack, circular_deps, dfs_log, env, calls, reports,
          python_files, scan_pc, file_i, god_classes, duplicates,
          block_hashes, dead_code, all_definitions, all_usages,
          coupling_issues, ocp_violations, dip_violations>>

analyzeVars == <<dimensions, pc, tools_used, tools_failed, files_analyzed,
                 files_skipped, results>>

cycleVars == <<import_graph, cd_pc, root_i, visited, rec_stack,
               circular_deps, dfs_log>>

runVars == <<env, calls, reports>>

solidVars == <<coupling_issues, ocp_violations, dip_violations>>

scanVars == <<python_files, scan_pc, file_i, god_classes, duplicates,
              block_hashes, dead_code, all_definitions, all_usages, solidVars>>

\* the variables of a machine that is not the one running
RunsIdle == env = <<>> /\ calls = 0 /\ reports = <<>>

SolidIdle == coupling_issues = <<>> /\ ocp_violations = <<>> /\ dip_violations = <<>>

ScanIdle ==
    /\ SolidIdle
    /\ python_files = <<>>
    /\ scan_pc = "idle"
    /\ file_i = 1
    /\ god_classes = <<>>
    /\ duplicates = <<>>
    /\ block_hashes = <<>>
    /\ dead_code = <<>>
    /\ all_definitions = <<>>
    /\ all_usages = {}

(***************************************************************************)
(* Generic helpers                                                         *)
(***************************************************************************)
Max(a, b) == IF a >= b THEN a ELSE b

Min(a, b) == IF a <= b THEN a ELSE b

Range(s) == {s[i] : i \in 1..Len(s)}

\* list.index(x): the first position of x (the caller checks x is there)
IndexOf(s, x) == CHOOSE i \in 1..Len(s) : s[i] = x /\ \A j \in 1..(i - 1) : s[j] # x

\* all orderings of a finite set
Perms(S) == {s \in [1..Cardinality(S) -> S] : \A i, j \in 1..Cardinality(S) : s[i] = s[j] => i = j}

(***************************************************************************)
(* _detect_circular_dependencies                                           *)
(*                                                                         *)
(* An import graph is a Python dict: a record [order, imports] where       *)
(* order lists the keys in insertion (= iteration) order and imports maps  *)
(* each key to its list of imported names.                                 *)
(***************************************************************************)
Modules == {"a", "b", "c"}

External == {"os"}

Names == Modules \cup External

\* the total number of import statements of a generated graph
MaxEdges == 4

GraphKeys(g) == Range(g.order)

\* the state the closure dfs() shares with its caller
DfsState_forgetful(v, r, l) == [visited |-> {}, rec_stack |-> r, log |-> l]

DfsState(v, r, l) == [visited |-> v, rec_stack |-> r, log |-> l]

\* what one dfs() call gives back: cycle is <<>> for None; raised is the
\* ValueError of path.index(module) for a module that is not in path
DfsResult(c, x, st) == [cycle |-> c, raised |-> x, st |-> st]

\* lines 756-762, the two early returns of dfs(): "cycle" when the module is
\* in rec_stack, else "seen" when it is in visited, else "expand"
DfsEntry_visitedFirst(module, st) ==
    IF module \in st.visited THEN "seen"
    ELSE IF module \in st.rec_stack THEN "cycle"
    ELSE "expand"

DfsEntry(module, st) ==
    IF module \in st.rec_stack THEN "cycle"
    ELSE IF module \in st.visited THEN "seen"
    ELSE "expand"

\* path[path.index(module):]
CyclePath_wholePath(path, module) == path

CyclePath(path, module) == SubSeq(path, IndexOf(path, module), Len(path))

\* rec_stack.remove(module), reached only when no import gave a cycle
LeaveModule_keep(st, module) == st

LeaveModule(st, module) == [st EXCEPT !.rec_stack = @ \ {module}]

RECURSIVE dfs_imports(_, _, _, _, _)
RECURSIVE dfs(_, _, _, _)
dfs(g, module, path, st) ==
    LET entry == DfsEntry(module, st) IN
    IF entry = "cycle"
    THEN IF module \in Range(path)
         THEN DfsResult(CyclePath(path, module), FALSE, st)
         ELSE DfsResult(<<>>, TRUE, st)
    ELSE IF entry = "seen"
    THEN DfsResult(<<>>, FALSE, st)
    ELSE dfs_imports(g, module, Append(path, module), 1,
                     DfsState(st.visited \cup {module},
                              st.rec_stack \cup {module},
                              Append(st.log, module)))

\* the for loop of dfs() over import_graph.get(module, []), from position i
dfs_imports(g, module, path, i, st) ==
    IF i > Len(g.imports[module])
    THEN DfsResult(<<>>, FALSE, LeaveModule(st, module))
    ELSE LET imported == g.imports[module][i] IN
         IF imported \in GraphKeys(g)
         THEN LET r == dfs(g, imported, path, st) IN
              IF r.raised \/ r.cycle # <<>>
              THEN r
              ELSE dfs_imports(g, module, path, i + 1, r.st)
         ELSE dfs_imports(g, module, path, i + 1, st)

\* the lists of at most n imported names
ImportLists(n) == UNION {[1..k -> Names] : k \in 0..n}

\* the dict built from the key order o and the import lists of its first,
\* second and third key
MakeGraph(o, f1, f2, f3) ==
    [order |-> o,
     imports |-> [k \in Range(o) |->
                    IF k = o[1] THEN f1 ELSE IF k = o[2] THEN f2 ELSE f3]]

\* every graph over at most three modules with at most MaxEdges imports in
\* all, in every key order
InitCycle ==
    /\ \E K \in SUBSET Modules :
         \E o \in Perms(K) :
           \E l1 \in 0..(IF Len(o) >= 1 THEN MaxEdges ELSE 0) :
             \E l2 \in 0..(IF Len(o) >= 2 THEN MaxEdges - l1 ELSE 0) :
               \E l3 \in 0..(IF Len(o) >= 3 THEN MaxEdges - l1 - l2 ELSE 0) :
                 \E f1 \in [1..l1 -> Names] :
                   \E f2 \in [1..l2 -> Names] :
                     \E f3 \in [1..l3 -> Names] :
                        import_graph = MakeGraph(o, f1, f2, f3)
    /\ cd_pc = "loop"
    /\ root_i = 1
    /\ visited = {}
    /\ rec_stack = {}
    /\ circular_deps = <<>>
    /\ dfs_log = <<>>
    /\ dimensions = <<>>
    /\ pc = "idle"
    /\ tools_used = <<>>
    /\ tools_failed = <<>>
    /\ files_analyzed = 0
    /\ files_skipped = 0
    /\ results = <<>>
    /\ RunsIdle
    /\ ScanIdle

\* one iteration of `for module in import_graph`, at position i, with the
\* closure state st and the list deps built so far
RootStep(g, i, st, deps) ==
    LET module == g.order[i] IN
    IF module \in st.visited
    THEN [raised |-> FALSE, i |-> i + 1, st |-> st, deps |-> deps]
    ELSE LET r == dfs(g, module, <<>>, st) IN
         IF r.raised
         THEN [raised |-> TRUE, i |-> i, st |-> r.st, deps |-> deps]
         ELSE [raised |-> FALSE, i |-> i + 1, st |-> r.st,
               deps |-> IF r.cycle # <<>> THEN Append(deps, r.cycle) ELSE deps]

\* the whole loop from position i: what _detect_circular_dependencies
\* returns, or that it raised
RECURSIVE DetectFrom(_, _, _, _)
DetectFrom(g, i, st, deps) ==
    IF i > Len(g.order)
    THEN [raised |-> FALSE, circular_deps |-> deps]
    ELSE LET n == RootStep(g, i, st, deps) IN
         IF n.raised
         THEN [raised |-> TRUE, circular_deps |-> n.deps]
         ELSE DetectFrom(g, n.i, n.st, n.deps)

DetectCircularDependencies(g) == DetectFrom(g, 1, DfsState({}, {}, <<>>), <<>>)

DetectRoot ==
    /\ cd_pc = "loop"
    /\ root_i <= Len(import_graph.order)
    /\ LET n == RootStep(import_graph, root_i, DfsState(visited, rec_stack, dfs_log),
                         circular_deps) IN
       /\ cd_pc' = IF n.raised THEN "raised" ELSE "loop"
       /\ root_i' = n.i
       /\ visited' = n.st.visited
       /\ rec_stack' = n.st.rec_stack
       /\ dfs_log' = n.st.log
       /\ circular_deps' = n.deps
    /\ UNCHANGED <<import_graph, analyzeVars, runVars, scanVars>>

\* `return circular_deps`
DetectReturn ==
    /\ cd_pc = "loop"
    /\ root_i > Len(import_graph.order)
    /\ cd_pc' = "returned"
    /\ UNCHANGED <<import_graph, root_i, visited, rec_stack, circular_deps, dfs_log, analyzeVars, runVars, scanVars>>

NextCycle == DetectRoot \/ DetectReturn

SpecCycle == InitCycle /\ [][NextCycle]_vars

(***************************************************************************)
(* analyze()                                                               *)
(***************************************************************************)
\* the order in which analyze() runs the dimensions; the weights dict of
\* _calculate_overall_health lists them in the same order
DimensionNames ==
    <<"maintainability", "performance", "security", "scalability", "reusability">>

\* the weights of _calculate_overall_health, in hundredths
weights ==
    [maintainability |-> 35, performance |-> 20, security |-> 25,
     scalability |-> 10, reusability |-> 10]

\* the largest number of findings of one kind a detector or tool reports
MaxCount == 10

\* the number of files radon reports on
MaxFiles == 1

\* the names of S in the order of DimensionNames
RECURSIVE InOrder(_, _)
InOrder(S, i) ==
    IF i > Len(DimensionNames) THEN <<>>
    ELSE (IF DimensionNames[i] \in S THEN <<DimensionNames[i]>> ELSE <<>>)
         \o InOrder(S, i + 1)

\* the lists main() can hand to the constructor: any subset of the five
\* names in the documented order, names in another order, a repeated name
\* and a name that is no dimension
Requests ==
    {InOrder(S, 1) : S \in SUBSET Range(DimensionNames)}
        \cup {<<"reusability", "security", "maintainability">>,
              <<"security", "security">>,
              <<"documentation", "performance">>}

\* ---- the dict self.results['dimensions'], in insertion order ----
DimKeys(dims) == {dims[i].dimension : i \in 1..Len(dims)}

DimGet(dims, d) == dims[CHOOSE i \in 1..Len(dims) : dims[i].dimension = d].result

\* dims[d] = r
DimPut(dims, d, r) ==
    IF d \in DimKeys(dims)
    THEN [i \in 1..Len(dims) |->
            IF dims[i].dimension = d THEN [dimension |-> d, result |-> r] ELSE dims[i]]
    ELSE Append(dims, [dimension |-> d, result |-> r])

\* ---- _track_tool ----
FailedTools(failed) == {failed[i].tool : i \in 1..Len(failed)}

TrackTool(used, failed, tool_name, success, reason) ==
    IF success
    THEN [used |-> IF tool_name \notin Range(used) THEN Append(used, tool_name) ELSE used,
          failed |-> failed]
    ELSE [used |-> used,
          failed |-> IF tool_name \notin FailedTools(failed)
                     THEN Append(failed, [tool |-> tool_name, reason |-> reason])
                     ELSE failed]

\* ---- severity counts of a list of findings ----
Sev(h, m, l) == [high |-> h, medium |-> m, low |-> l]

NoFindings == Sev(0, 0, 0)

\* ---- analyze_maintainability ----
\* cyclomatic complexities radon reports for the functions of one file
FileFunctions == {<<>>, <<3>>, <<8>>, <<12>>, <<40>>, <<3, 40>>}

\* outcomes of `radon cc`: JSON for some files; a non-zero exit; the
\* subprocess call raising (binary missing, timeout); exit 0 with output
\* json.loads rejects
RadonOutcomes ==
    {[kind |-> "ok", data |-> d] : d \in UNION {[1..n -> FileFunctions] : n \in 0..MaxFiles}}
        \cup {[kind |-> "nonzero", data |-> <<>>],
              [kind |-> "raised", data |-> <<>>],
              [kind |-> "malformed", data |-> <<>>]}

RECURSIVE SumSeq(_)
SumSeq(s) == IF s = <<>> THEN 0 ELSE s[1] + SumSeq(Tail(s))

RECURSIVE Flatten(_)
Flatten(ss) == IF ss = <<>> THEN <<>> ELSE ss[1] \o Flatten(Tail(ss))

\* lines 178-186; avg = total / count, or 0 without functions
ComplexityScore(total, count) ==
    IF count = 0 \/ total <= 5 * count THEN 100
    ELSE IF total <= 10 * count THEN 80
    ELSE IF total <= 15 * count THEN 60
    ELSE 40

MaintainabilityResult(radon, mi_ok) ==
    LET funcs == Flatten(radon.data)
        high_complexity == SelectSeq(funcs, LAMBDA c : c > 10)
    IN [score |-> IF radon.kind = "ok" THEN ComplexityScore(SumSeq(funcs), Len(funcs)) ELSE 0,
        issues |-> IF radon.kind = "ok" THEN Len(high_complexity) ELSE 0,
        has_complexity |-> radon.kind = "ok",
        has_maintainability_index |-> mi_ok]

\* what the radon cc block does to tools_used / tools_failed
MaintainabilityTools(used, failed, radon) ==
    IF radon.kind = "ok" THEN TrackTool(used, failed, "radon", TRUE, "")
    ELSE IF radon.kind = "nonzero"
         THEN TrackTool(used, failed, "radon", FALSE, "non-zero exit code")
    ELSE IF radon.kind = "raised"
         THEN TrackTool(used, failed, "radon", FALSE, "str(e)")
    ELSE LET t == TrackTool(used, failed, "radon", TRUE, "") IN
         TrackTool(t.used, t.failed, "radon", FALSE, "str(e)")

\* ---- analyze_performance ----
\* severities of the findings of the four pattern detectors
PerformanceFindings ==
    {NoFindings, Sev(0, 0, 1), Sev(0, MaxCount, 0), Sev(MaxCount, 0, 0),
     Sev(MaxCount, MaxCount, 1)}

PerformanceScore_unfloored(f) == Max(0, 100 - (f.high * 8 + f.medium * 3 + f.low * 1))

PerformanceScore(f) == Max(20, 100 - (f.high * 8 + f.medium * 3 + f.low * 1))

PerformanceResult(f) == [score |-> PerformanceScore(f), findings |-> f]

\* ---- analyze_security ----
\* outcomes of bandit: output (parsed), no output, binary missing, output
\* json.loads rejects
BanditOutcomes == {"ok", "no output", "not installed", "malformed"}

\* severities of bandit's findings (HIGH / MEDIUM / LOW)
BanditFindings == {NoFindings, Sev(0, MaxCount, 1), Sev(1, 0, 0)}

\* what the rest of analyze_security finds: the severities of the static
\* pattern findings, and the number of vulnerable dependencies safety
\* reports (0: none, or safety missing, failing or silent)
OtherSecurityFindings ==
    {[static |-> NoFindings, safety |-> 0],
     [static |-> NoFindings, safety |-> 2],
     [static |-> Sev(MaxCount, 0, 0), safety |-> 0]}

SecurityTools(used, failed, bandit) ==
    IF bandit = "ok" THEN TrackTool(used, failed, "bandit", TRUE, "")
    ELSE IF bandit = "no output" THEN TrackTool(used, failed, "bandit", FALSE, "no output")
    ELSE IF bandit = "not installed"
         THEN TrackTool(used, failed, "bandit", FALSE, "not installed")
    ELSE LET t == TrackTool(used, failed, "bandit", TRUE, "") IN
         TrackTool(t.used, t.failed, "bandit", FALSE, "str(e)")

SecurityScore(h, m, l) == Max(20, 100 - (h * 15 + m * 5 + l * 1))

SecuritySeverity(h, m, l) ==
    IF h > 0 THEN "high" ELSE IF m > 0 THEN "medium" ELSE IF l > 0 THEN "low" ELSE "none"

\* vulns: bandit's findings (none unless bandit = "ok"); the safety entry
\* carries no severity
SecurityResult(vulns, static, safety) ==
    LET h == vulns.high + static.high
        m == vulns.medium + static.medium
        l == vulns.low + static.low
    IN [score |-> SecurityScore(h, m, l),
        severity |-> SecuritySeverity(h, m, l),
        vulnerabilities |-> [high |-> vulns.high, medium |-> vulns.medium,
                             low |-> vulns.low,
                             dependency |-> IF safety > 0 THEN 1 ELSE 0],
        static_issues |-> static,
        dependency_issues |-> safety]

\* ---- analyze_scalability ----
\* import graphs of a scanned project: no file, two modules importing each
\* other, two modules importing themselves, a cycle with a third module
\* importing into it
ProjectGraphs ==
    {MakeGraph(<<>>, <<>>, <<>>, <<>>),
     MakeGraph(<<"a", "b">>, <<"b">>, <<"os">>, <<>>),
     MakeGraph(<<"a", "b">>, <<"b">>, <<"a">>, <<>>),
     MakeGraph(<<"a", "b">>, <<"a">>, <<"b">>, <<>>),
     MakeGraph(<<"a", "b", "c">>, <<"b">>, <<"a">>, <<"a">>)}

\* what the four SOLID detectors report
SolidFindings ==
    {[god_classes |-> 0, tight_coupling |-> 0, ocp_violations |-> 0, dip_violations |-> 0],
     [god_classes |-> 1, tight_coupling |-> 1, ocp_violations |-> 1, dip_violations |-> 1],
     [god_classes |-> MaxCount, tight_coupling |-> MaxCount, ocp_violations |-> 0,
      dip_violations |-> 0]}

ScalabilityScore(cycles, f) ==
    Max(20, 100 - (cycles * 10 + f.god_classes * 5 + f.tight_coupling * 3
                   + (f.ocp_violations + f.dip_violations) * 2))

ScalabilityResult(deps, f) ==
    [score |-> ScalabilityScore(Len(deps), f),
     circular_dependencies |-> deps,
     metrics |-> f]

\* ---- analyze_reusability ----
\* dead_code[:100]
DeadCodeLimit == 100

\* outcomes of the pylint similarity run: output that parses, no output,
\* output json.loads rejects, binary missing
PylintOutcomes == {"ok", "no output", "malformed", "not installed"}

\* the duplicates pylint (or, without it, the hash fallback) reports, the
\* dead-code findings and the extractable patterns found
ReusabilityFindings ==
    {[duplicate_blocks |-> 0, dead_code |-> 0, extractable_patterns |-> 0],
     [duplicate_blocks |-> 0, dead_code |-> 0, extractable_patterns |-> MaxCount],
     [duplicate_blocks |-> MaxCount, dead_code |-> MaxCount, extractable_patterns |-> 1]}

ReusabilityScore(f) ==
    LET duplication_penalty == f.duplicate_blocks * 3
        dead_code_penalty == f.dead_code * 1
        extractable_bonus == Min(f.extractable_patterns * 2, 10)
        total_penalty == duplication_penalty + dead_code_penalty - extractable_bonus
    IN Max(20, 100 - total_penalty)

\* pylint_used is the local flag of analyze_reusability: the duplicates
\* came from pylint and the hash fallback did not run
ReusabilityResult(pylint, f) ==
    LET kept == [f EXCEPT !.dead_code = Min(@, DeadCodeLimit)] IN
    [score |-> ReusabilityScore(kept), metrics |-> kept, pylint_used |-> pylint = "ok"]

\* ---- _calculate_overall_health ----
\* a dimension without a result counted with the default score of .get()
RECURSIVE WeightedSum_defaulted(_, _)
WeightedSum_defaulted(dims, i) ==
    IF i > Len(DimensionNames) THEN 0
    ELSE LET dim == DimensionNames[i] IN
         (IF dim \in DimKeys(dims) THEN DimGet(dims, dim).score ELSE 70) * weights[dim]
         + WeightedSum_defaulted(dims, i + 1)

\* sum(scores), in hundredths
RECURSIVE WeightedSum(_, _)
WeightedSum(dims, i) ==
    IF i > Len(DimensionNames) THEN 0
    ELSE LET dim == DimensionNames[i] IN
         (IF dim \in DimKeys(dims) THEN DimGet(dims, dim).score * weights[dim] ELSE 0)
         + WeightedSum(dims, i + 1)

\* round(x) of a sum of x hundredths. Python rounds the binary floating-point
\* sum: off a tie it is the nearest integer; on a tie the representation
\* error of the products decides (0.2*24 + 0.1*97 is 14.500000000000002 and
\* rounds to 15, 0.25*26 is 6.5 and rounds to 6), so both neighbours are
\* possible
Round(x) ==
    IF x % 100 = 50 THEN {x \div 100, x \div 100 + 1}
    ELSE {(x + 50) \div 100}

\* the same arithmetic on the same operands gives the same float: round(x)
\* on an input whose ties round up (or down)
RoundAs(x, up) ==
    IF x % 100 = 50 THEN x \div 100 + (IF up THEN 1 ELSE 0)
    ELSE (x + 50) \div 100

\* ---- _generate_priority_actions ----
\* the first threshold taken inclusively
PriorityOf_inclusive(score) ==
    IF score <= 60 THEN "high" ELSE IF score < 75 THEN "medium" ELSE "none"

PriorityOf(score) ==
    IF score < 60 THEN "high" ELSE IF score < 75 THEN "medium" ELSE "none"

\* the loop over results['dimensions'].items(), from position i
RECURSIVE CollectActions(_, _)
CollectActions(dims, i) ==
    IF i > Len(dims) THEN <<>>
    ELSE LET score == dims[i].result.score
             entry == [dimension |-> dims[i].dimension,
                       priority |-> PriorityOf(score),
                       score |-> score]
         IN (IF PriorityOf(score) # "none" THEN <<entry>> ELSE <<>>)
            \o CollectActions(dims, i + 1)

\* the list left in insertion order
InsertByScore_unsorted(sorted, x) == Append(sorted, x)

\* list.sort(key=score): stable, ascending
RECURSIVE InsertByScore(_, _)
InsertByScore(sorted, x) ==
    IF sorted = <<>> THEN <<x>>
    ELSE IF x.score < sorted[1].score THEN <<x>> \o sorted
    ELSE <<sorted[1]>> \o InsertByScore(Tail(sorted), x)

RECURSIVE SortByScore(_)
SortByScore(s) ==
    IF s = <<>> THEN <<>>
    ELSE InsertByScore(SortByScore(SubSeq(s, 1, Len(s) - 1)), s[Len(s)])

\* actions[:5]
TopActions(s) == SubSeq(s, 1, Min(Len(s), 5))

PriorityActions(dims) == TopActions(SortByScore(CollectActions(dims, 1)))

\* ---- _finalize_meta ----
ExpectedTools == {"radon", "bandit", "pylint", "pydeps"}

\* the confidence, in hundredths
Confidence(used, failed) ==
    LET available_count == Cardinality({t \in ExpectedTools : t \in Range(used)})
        failed_count == Len(failed)
    IN Max(50, 100 - failed_count * 10 - (4 - available_count) * 5)

\* ---- the analyzer object ----
\* self after __init__(project_path, dims)
NewAnalyzer(dims) ==
    [dimensions |-> dims,
     tools_used |-> <<>>,
     tools_failed |-> <<>>,
     files_analyzed |-> 0,
     files_skipped |-> 0,
     results |-> [meta |-> [tools_used |-> <<>>, tools_failed |-> <<>>,
                            coverage |-> [files_analyzed |-> 0, files_skipped |-> 0],
                            confidence |-> 100],
                  dimensions |-> <<>>,
                  overall_health |-> 0,
                  priority_actions |-> <<>>]]

\* self.results['dimensions'][d] = self.analyze_<d>(), for the outcome of
\* the tools it runs and the findings of its detectors
analyze_maintainability(self, radon, mi_ok) ==
    LET t == MaintainabilityTools(self.tools_used, self.tools_failed, radon) IN
    [self EXCEPT !.tools_used = t.used,
                 !.tools_failed = t.failed,
                 !.files_analyzed = @ + Len(radon.data),
                 !.results.dimensions =
                     DimPut(@, "maintainability", MaintainabilityResult(radon, mi_ok))]

analyze_performance(self, f) ==
    [self EXCEPT !.results.dimensions = DimPut(@, "performance", PerformanceResult(f))]

analyze_security(self, bandit, found, other) ==
    LET t == SecurityTools(self.tools_used, self.tools_failed, bandit)
        vulns == IF bandit = "ok" THEN found ELSE NoFindings
    IN [self EXCEPT !.tools_used = t.used,
                    !.tools_failed = t.failed,
                    !.results.dimensions =
                        DimPut(@, "security",
                               SecurityResult(vulns, other.static, other.safety))]

\* deps: what _detect_circular_dependencies returned
analyze_scalability(self, deps, f) ==
    [self EXCEPT !.results.dimensions = DimPut(@, "scalability", ScalabilityResult(deps, f))]

analyze_reusability(self, pylint, f) ==
    [self EXCEPT !.results.dimensions = DimPut(@, "reusability", ReusabilityResult(pylint, f))]

\* h: round(sum(scores))
calculate_overall_health(self, h) ==
    [self EXCEPT !.results.overall_health = h]

generate_priority_actions(self) ==
    [self EXCEPT !.results.priority_actions = PriorityActions(self.results.dimensions)]

finalize_meta(self) ==
    [self EXCEPT !.results.meta =
        [tools_used |-> self.tools_used,
         tools_failed |-> [i \in 1..Len(self.tools_failed) |-> self.tools_failed[i].tool],
         coverage |-> [files_analyzed |-> self.files_analyzed,
                       files_skipped |-> self.files_skipped],
         confidence |-> Confidence(self.tools_used, self.tools_failed)]]

\* ---- the state machine ----
\* the analyzer the variables hold
Self ==
    [dimensions |-> dimensions, tools_used |-> tools_used,
     tools_failed |-> tools_failed, files_analyzed |-> files_analyzed,
     files_skipped |-> files_skipped, results |-> results]

\* the variables hold the analyzer s
IsSelf(s) ==
    /\ dimensions = s.dimensions
    /\ tools_used = s.tools_used
    /\ tools_failed = s.tools_failed
    /\ files_analyzed = s.files_analyzed
    /\ files_skipped = s.files_skipped
    /\ results = s.results

\* the analyzer becomes s
Becomes(s) ==
    /\ dimensions' = s.dimensions
    /\ tools_used' = s.tools_used
    /\ tools_failed' = s.tools_failed
    /\ files_analyzed' = s.files_analyzed
    /\ files_skipped' = s.files_skipped
    /\ results' = s.results

\* __init__
Init ==
    /\ \E dims \in Requests : IsSelf(NewAnalyzer(dims))
    /\ pc = "maintainability"
    /\ import_graph = MakeGraph(<<>>, <<>>, <<>>, <<>>)
    /\ cd_pc = "idle"
    /\ root_i = 1
    /\ visited = {}
    /\ rec_stack = {}
    /\ circular_deps = <<>>
    /\ dfs_log = <<>>
    /\ RunsIdle
    /\ ScanIdle

NextPc_skipping(p) ==
    CASE p = "maintainability" -> "performance"
      [] p = "performance" -> "security"
      [] p = "security" -> "scalability"
      [] p = "scalability" -> "overall_health"
      [] p = "reusability" -> "overall_health"
      [] p = "overall_health" -> "priority_actions"
      [] p = "priority_actions" -> "finalize_meta"
      [] p = "finalize_meta" -> "done"

\* the step of analyze() after the one at position p
NextPc(p) ==
    CASE p = "maintainability" -> "performance"
      [] p = "performance" -> "security"
      [] p = "security" -> "scalability"
      [] p = "scalability" -> "reusability"
      [] p = "reusability" -> "overall_health"
      [] p = "overall_health" -> "priority_actions"
      [] p = "priority_actions" -> "finalize_meta"
      [] p = "finalize_meta" -> "done"

\* `if '<dimension>' in self.dimensions:` is false
SkipDimension ==
    /\ pc \in Range(DimensionNames)
    /\ pc \notin Range(dimensions)
    /\ pc' = NextPc(pc)
    /\ UNCHANGED <<dimensions, tools_used, tools_failed, files_analyzed,
                   files_skipped, results, cycleVars, runVars, scanVars>>

AnalyzeMaintainability ==
    /\ pc = "maintainability"
    /\ pc \in Range(dimensions)
    \* mi_ok: the second call, `radon mi`, gave a maintainability index
    /\ \E radon \in RadonOutcomes, mi_ok \in BOOLEAN :
         Becomes(analyze_maintainability(Self, radon, mi_ok))
    /\ pc' = NextPc(pc)
    /\ UNCHANGED <<cycleVars, runVars, scanVars>>

AnalyzePerformance ==
    /\ pc = "performance"
    /\ pc \in Range(dimensions)
    /\ \E f \in PerformanceFindings : Becomes(analyze_performance(Self, f))
    /\ pc' = NextPc(pc)
    /\ UNCHANGED <<cycleVars, runVars, scanVars>>

AnalyzeSecurity ==
    /\ pc = "security"
    /\ pc \in Range(dimensions)
    /\ \E bandit \in BanditOutcomes, found \in BanditFindings,
          other \in OtherSecurityFindings :
         Becomes(analyze_security(Self, bandit, found, other))
    /\ pc' = NextPc(pc)
    /\ UNCHANGED <<cycleVars, runVars, scanVars>>

\* _detect_circular_dependencies is called outside any try block: when it
\* raises, analyze() raises
AnalyzeScalability ==
    /\ pc = "scalability"
    /\ pc \in Range(dimensions)
    /\ \E g \in ProjectGraphs, f \in SolidFindings :
         LET d == DetectCircularDependencies(g) IN
         IF d.raised
         THEN /\ pc' = "raised"
              /\ Becomes(Self)
         ELSE /\ pc' = NextPc(pc)
              /\ Becomes(analyze_scalability(Self, d.circular_deps, f))
    /\ UNCHANGED <<cycleVars, runVars, scanVars>>

AnalyzeReusability ==
    /\ pc = "reusability"
    /\ pc \in Range(dimensions)
    /\ \E pylint \in PylintOutcomes, f \in ReusabilityFindings :
         Becomes(analyze_reusability(Self, pylint, f))
    /\ pc' = NextPc(pc)
    /\ UNCHANGED <<cycleVars, runVars, scanVars>>

CalculateOverallHealth ==
    /\ pc = "overall_health"
    /\ \E h \in Round(WeightedSum(results.dimensions, 1)) :
         Becomes(calculate_overall_health(Self, h))
    /\ pc' = NextPc(pc)
    /\ UNCHANGED <<cycleVars, runVars, scanVars>>

GeneratePriorityActions ==
    /\ pc = "priority_actions"
    /\ Becomes(generate_priority_actions(Self))
    /\ pc' = NextPc(pc)
    /\ UNCHANGED <<cycleVars, runVars, scanVars>>

FinalizeMeta ==
    /\ pc = "finalize_meta"
    /\ Becomes(finalize_meta(Self))
    /\ pc' = NextPc(pc)
    /\ UNCHANGED <<cycleVars, runVars, scanVars>>

Next ==
    \/ SkipDimension
    \/ AnalyzeMaintainability
    \/ AnalyzePerformance
    \/ AnalyzeSecurity
    \/ AnalyzeScalability
    \/ AnalyzeReusability
    \/ CalculateOverallHealth
    \/ GeneratePriorityActions
    \/ FinalizeMeta

Spec == Init /\ [][Next]_vars

(***************************************************************************)
(* analyze() as one step, on a project that does not change                *)
(***************************************************************************)
\* the largest number of .py files of the project that ast.parse rejects
MaxUnparsable == 1

\* the largest number of analyze() calls followed
MaxCalls == 2

\* a project and its tools: what each external tool does when run on it,
\* what the detectors find in the files that parse, how many files do not
\* parse, and how round() resolves a tie on the sums this project produces
Projects ==
    [radon : RadonOutcomes,
     mi_ok : BOOLEAN,
     performance : {Sev(0, 0, 1)},
     bandit : BanditOutcomes,
     found : {Sev(1, 0, 0)},
     other : {[static |-> NoFindings, safety |-> 2]},
     graph : ProjectGraphs,
     solid : {[god_classes |-> 1, tight_coupling |-> 1, ocp_violations |-> 1,
               dip_violations |-> 1]},
     pylint : {"ok", "not installed"},
     reuse : {[duplicate_blocks |-> MaxCount, dead_code |-> MaxCount,
               extractable_patterns |-> 1]},
     unparsable : 0..MaxUnparsable,
     round_up : BOOLEAN]

\* the request lists the calls are followed for
RunRequests ==
    {DimensionNames, <<"maintainability">>, <<"security", "reusability">>,
     <<"documentation", "performance">>}

\* analyze() on the analyzer self and the project e: the analyzer afterwards,
\* and whether the call raised instead of returning self.results.  A file
\* that does not parse is passed over by the `except Exception: continue` of
\* every loop over the files and changes nothing
analyze(self, e) ==
    LET requested(d) == d \in Range(self.dimensions)
        s1 == IF requested("maintainability")
              THEN analyze_maintainability(self, e.radon, e.mi_ok) ELSE self
        s2 == IF requested("performance")
              THEN analyze_performance(s1, e.performance) ELSE s1
        s3 == IF requested("security")
              THEN analyze_security(s2, e.bandit, e.found, e.other) ELSE s2
        d == DetectCircularDependencies(e.graph)
        s4 == IF requested("scalability")
              THEN analyze_scalability(s3, d.circular_deps, e.solid) ELSE s3
        s5 == IF requested("reusability")
              THEN analyze_reusability(s4, e.pylint, e.reuse) ELSE s4
        s6 == calculate_overall_health(
                  s5, RoundAs(WeightedSum(s5.results.dimensions, 1), e.round_up))
    IN IF requested("scalability") /\ d.raised
       THEN [raised |-> TRUE, self |-> s3]
       ELSE [raised |-> FALSE, self |-> finalize_meta(generate_priority_actions(s6))]

\* main(): an analyzer is constructed for the project
InitRuns ==
    /\ env \in Projects
    /\ \E dims \in RunRequests : IsSelf(NewAnalyzer(dims))
    /\ pc = "constructed"
    /\ calls = 0
    /\ reports = <<>>
    /\ import_graph = MakeGraph(<<>>, <<>>, <<>>, <<>>)
    /\ cd_pc = "idle"
    /\ root_i = 1
    /\ visited = {}
    /\ rec_stack = {}
    /\ circular_deps = <<>>
    /\ dfs_log = <<>>
    /\ ScanIdle

\* results = analyzer.analyze(); a report is the value returned (what
\* main() prints or saves right after the call)
CallAnalyze ==
    /\ calls < MaxCalls
    /\ LET r == analyze(Self, env) IN
       /\ Becomes(r.self)
       /\ pc' = IF r.raised THEN "raised" ELSE "returned"
       /\ reports' = IF r.raised THEN reports ELSE Append(reports, r.self.results)
    /\ calls' = calls + 1
    /\ UNCHANGED <<env, cycleVars, scanVars>>

\* analyzer = MultiDimensionalAnalyzer(project_path, dimensions) once more,
\* as the next run of main() does
Construct ==
    /\ pc # "constructed"
    /\ Becomes(NewAnalyzer(dimensions))
    /\ pc' = "constructed"
    /\ UNCHANGED <<env, calls, reports, cycleVars, scanVars>>

NextRuns == CallAnalyze \/ Construct

SpecRuns == InitRuns /\ [][NextRuns]_vars

(***************************************************************************)
(* The three penalty scores, on findings of a wide range                   *)
(*                                                                         *)
(* The analyzer is asked for one dimension; the findings of the detectors  *)
(* and tools of that dimension are drawn from all counts whose penalty is  *)
(* at most MaxPenalty.                                                     *)
(***************************************************************************)
MaxPenalty == 110

\* the counts of high, medium and low findings that cost at most MaxPenalty
\* when a finding of each severity costs h, m and l
SevUpTo(h, m, l) ==
    {f \in [high : 0..(MaxPenalty \div h), medium : 0..(MaxPenalty \div m),
            low : 0..(MaxPenalty \div l)] :
        f.high * h + f.medium * m + f.low * l <= MaxPenalty}

ScoreInputs ==
    {[dimension |-> "performance", findings |-> f] : f \in SevUpTo(8, 3, 1)}
    \cup {[dimension |-> "security", bandit |-> b, found |-> f, other |-> o] :
             b \in {"ok", "not installed"},
             f \in {v \in SevUpTo(15, 5, 1) : v.low <= 5 \/ v.high + v.medium = 0},
             o \in {[static |-> NoFindings, safety |-> 0],
                    [static |-> NoFindings, safety |-> 2],
                    [static |-> Sev(1, 1, 1), safety |-> 0]}}
    \cup {[dimension |-> "scalability",
           deps |-> [k \in 1..c |-> <<"a", "a">>],
           findings |-> [god_classes |-> g, tight_coupling |-> t,
                         ocp_violations |-> o, dip_violations |-> d]] :
             c \in 0..(MaxPenalty \div 10), g \in 0..(MaxPenalty \div 5),
             t \in {0, 1, 2, MaxPenalty \div 3}, o \in 0..2, d \in {0, 1, MaxPenalty \div 2}}

InitScore ==
    /\ env \in ScoreInputs
    /\ IsSelf(NewAnalyzer(<<env.dimension>>))
    /\ pc = env.dimension
    /\ calls = 0
    /\ reports = <<>>
    /\ import_graph = MakeGraph(<<>>, <<>>, <<>>, <<>>)
    /\ cd_pc = "idle"
    /\ root_i = 1
    /\ visited = {}
    /\ rec_stack = {}
    /\ circular_deps = <<>>
    /\ dfs_log = <<>>
    /\ ScanIdle

\* self.results['dimensions']['performance'] = self.analyze_performance()
ScorePerformance ==
    /\ pc = "performance"
    /\ Becomes(analyze_performance(Self, env.findings))
    /\ pc' = "scored"
    /\ UNCHANGED <<env, calls, reports, cycleVars, scanVars>>

ScoreSecurity ==
    /\ pc = "security"
    /\ Becomes(analyze_security(Self, env.bandit, env.found, env.other))
    /\ pc' = "scored"
    /\ UNCHANGED <<env, calls, reports, cycleVars, scanVars>>

ScoreScalability ==
    /\ pc = "scalability"
    /\ Becomes(analyze_scalability(Self, env.deps, env.findings))
    /\ pc' = "scored"
    /\ UNCHANGED <<env, calls, reports, cycleVars, scanVars>>

NextScore == ScorePerformance \/ ScoreSecurity \/ ScoreScalability

SpecScore == InitScore /\ [][NextScore]_vars

(***************************************************************************)
(* The detectors that loop over python_files                               *)
(*                                                                         *)
(* A file is a record with its path relative to the project and what the   *)
(* detector reads from it; the i-th file of the list has the i-th path.    *)
(***************************************************************************)
FileNames == <<"a.py", "b.py", "c.py", "d.py">>

\* the lists of at most n files drawn from the file contents F
FileLists(F, n) ==
    UNION {{[i \in 1..m |-> [path |-> FileNames[i], content |-> c[i]]] : c \in [1..m -> F]}
           : m \in 0..n}

(***************************************************************************)
(* _find_god_classes                                                       *)
(***************************************************************************)
\* the largest number of classes in one file
MaxClasses == 1

\* the largest number of files the detector is called with
MaxGodFiles == 2

ClassNames == <<"A", "B", "C">>

\* the ClassDef nodes ast.walk yields: the number of FunctionDef and of
\* AsyncFunctionDef items directly in the body, and the first and last line
ClassDefs ==
    {[FunctionDef |-> m[1], AsyncFunctionDef |-> m[2], lineno |-> l[1], end_lineno |-> l[2]] :
        m \in {<<20, 0>>, <<21, 0>>, <<20, 1>>}, l \in {<<1, 500>>, <<2, 502>>}}

\* what a file holds: text that ast.parse rejects, or its classes in the
\* order of ast.walk, named apart
GodFileContents ==
    {[parses |-> FALSE, classes |-> <<>>]}
        \cup UNION {{[parses |-> TRUE,
                      classes |-> [k \in 1..n |-> [name |-> ClassNames[k], node |-> c[k]]]] :
                        c \in [1..n -> ClassDefs]}
                    : n \in 0..MaxClasses}

\* sum(1 for item in node.body if isinstance(item, (FunctionDef, AsyncFunctionDef)))
MethodCount(node) == node.FunctionDef + node.AsyncFunctionDef

\* node.end_lineno - node.lineno + 1 (end_lineno is always there on the
\* Python versions that run the script)
ClassLines(node) == node.end_lineno - node.lineno + 1

\* the thresholds taken inclusively
IsGodClass_inclusive(method_count, class_lines) ==
    method_count >= 20 \/ class_lines >= 500

IsGodClass(method_count, class_lines) == method_count > 20 \/ class_lines > 500

\* the loop over ast.walk(tree) of one file, from class k on
RECURSIVE GodClassesOf(_, _)
GodClassesOf(file, k) ==
    IF k > Len(file.content.classes) THEN <<>>
    ELSE LET c == file.content.classes[k]
             method_count == MethodCount(c.node)
             class_lines == ClassLines(c.node)
         IN (IF IsGodClass(method_count, class_lines)
             THEN <<[file |-> file.path, class |-> c.name, line |-> c.node.lineno,
                     method_count |-> method_count, class_lines |-> class_lines]>>
             ELSE <<>>)
            \o GodClassesOf(file, k + 1)

InitGod ==
    /\ python_files \in FileLists(GodFileContents, MaxGodFiles)
    /\ scan_pc = "loop"
    /\ file_i = 1
    /\ god_classes = <<>>
    /\ duplicates = <<>>
    /\ block_hashes = <<>>
    /\ dead_code = <<>>
    /\ all_definitions = <<>>
    /\ all_usages = {}
    /\ dimensions = <<>>
    /\ pc = "idle"
    /\ tools_used = <<>>
    /\ tools_failed = <<>>
    /\ files_analyzed = 0
    /\ files_skipped = 0
    /\ results = <<>>
    /\ import_graph = MakeGraph(<<>>, <<>>, <<>>, <<>>)
    /\ cd_pc = "idle"
    /\ root_i = 1
    /\ visited = {}
    /\ rec_stack = {}
    /\ circular_deps = <<>>
    /\ dfs_log = <<>>
    /\ RunsIdle
    /\ SolidIdle

\* one iteration of `for py_file in python_files`: a file that does not
\* parse raises inside the try and is passed over
GodScanFile ==
    /\ scan_pc = "loop"
    /\ file_i <= Len(python_files)
    /\ LET file == python_files[file_i] IN
       god_classes' = IF file.content.parses
                      THEN god_classes \o GodClassesOf(file, 1)
                      ELSE god_classes
    /\ file_i' = file_i + 1
    /\ UNCHANGED <<python_files, scan_pc, duplicates, block_hashes, dead_code,
                   all_definitions, all_usages, analyzeVars, cycleVars, runVars,
                   solidVars>>

\* `return god_classes`
GodReturn ==
    /\ scan_pc = "loop"
    /\ file_i > Len(python_files)
    /\ scan_pc' = "returned"
    /\ UNCHANGED <<python_files, file_i, god_classes, duplicates, block_hashes,
                   dead_code, all_definitions, all_usages, analyzeVars, cycleVars,
                   runVars, solidVars>>

NextGod == GodScanFile \/ GodReturn

SpecGod == InitGod /\ [][NextGod]_vars

(***************************************************************************)
(* _detect_duplicates_with_hashing                                         *)
(*                                                                         *)
(* A text is a sequence of character codes; a file is the list of lines    *)
(* readlines() returns, each with its line break.                          *)
(***************************************************************************)
\* the largest number of files the detector is called with
MaxDupFiles == 2

\* duplicates[:50]
DuplicateLimit == 50

\* block_size = 5
block_size == 5

\* the characters str.split() splits at: tab, line feed, vertical tab, form
\* feed, carriage return, space
Whitespace == {9, 10, 11, 12, 13, 32}

\* ' '.join(text[lo..hi].split()) together with whether the piece begins and
\* ends with whitespace, put together from its two halves (the recursion is
\* by halves to keep it shallow): the words of the halves are joined by one
\* space where whitespace separates them, and run on where a word crosses
\* the middle
RECURSIVE NormalizedPiece(_, _, _)
NormalizedPiece(text, lo, hi) ==
    IF lo = hi
    THEN (IF text[lo] \in Whitespace
          THEN [body |-> <<>>, lead |-> TRUE, trail |-> TRUE]
          ELSE [body |-> <<text[lo]>>, lead |-> FALSE, trail |-> FALSE])
    ELSE LET mid == (lo + hi) \div 2
             l == NormalizedPiece(text, lo, mid)
             r == NormalizedPiece(text, mid + 1, hi)
         IN IF l.body = <<>> THEN [r EXCEPT !.lead = TRUE]
            ELSE IF r.body = <<>> THEN [l EXCEPT !.trail = TRUE]
            ELSE [body |-> IF l.trail \/ r.lead THEN l.body \o <<32>> \o r.body
                           ELSE l.body \o r.body,
                  lead |-> l.lead,
                  trail |-> r.trail]

\* normalized = ' '.join(block.split())
Normalized(block) ==
    IF block = <<>> THEN <<>> ELSE NormalizedPiece(block, 1, Len(block)).body

\* blocks of exactly 50 characters skipped as well
IsTrivial_inclusive(normalized) == Len(normalized) <= 50

\* `if len(normalized) < 50: continue`
IsTrivial(normalized) == Len(normalized) < 50

\* simple_hash: h = ((h << 5) + h) + ord(char) from 5381, masked to 32 bits
\* at the end.  The value is kept as two 16-bit halves [hi, lo]; reducing
\* after every step gives the same low 32 bits as masking the final sum
HashStep(h, char) ==
    [hi |-> (h.hi * 33 + (h.lo * 33 + char) \div 65536) % 65536,
     lo |-> (h.lo * 33 + char) % 65536]

\* the loop `for char in text` over text[lo..hi], entered with the value h
\* (by halves, each half finished before the next is entered)
RECURSIVE HashOver(_, _, _, _)
HashOver(h, text, lo, hi) ==
    IF lo > hi THEN h
    ELSE IF lo = hi THEN HashStep(h, text[lo])
    ELSE LET mid == (lo + hi) \div 2
             left == HashOver(h, text, lo, mid)
         IN IF left.lo >= 0 THEN HashOver(left, text, mid + 1, hi) ELSE left

simple_hash(text) == HashOver([hi |-> 0, lo |-> 5381], text, 1, Len(text))

\* ''.join(lines[i:i + block_size]) for the 0-based i
RECURSIVE JoinLines(_)
JoinLines(ls) == IF ls = <<>> THEN <<>> ELSE ls[1] \o JoinLines(Tail(ls))

Block(lines, i) == JoinLines(SubSeq(lines, i + 1, i + block_size))

\* blocks of the same file exactly block_size lines apart paired as well
PairAllowed_adjacent(existing, relative_path, line) ==
    existing.file # relative_path
        \/ (IF existing.line >= line THEN existing.line - line ELSE line - existing.line)
               >= block_size

\* existing['file'] != relative_path or abs(existing['line'] - (i + 1)) > block_size
PairAllowed(existing, relative_path, line) ==
    existing.file # relative_path
        \/ (IF existing.line >= line THEN existing.line - line ELSE line - existing.line)
               > block_size

\* `for existing in block_hashes[block_hash]`, from position k: the first
\* entry the new block is paired with, or <<>>
RECURSIVE FirstPair(_, _, _, _)
FirstPair(bucket, k, relative_path, line) ==
    IF k > Len(bucket) THEN <<>>
    ELSE IF PairAllowed(bucket[k], relative_path, line)
         THEN <<[file |-> relative_path, line |-> line,
                 similar_to |-> bucket[k].file, similar_line |-> bucket[k].line]>>
         ELSE FirstPair(bucket, k + 1, relative_path, line)

\* the body of `for i in range(len(lines) - block_size + 1)` for one i, on
\* the lists built so far: st = [duplicates, block_hashes]
ScanBlock(file, i, st) ==
    LET normalized == Normalized(Block(file.content.lines, i))
        block_hash == simple_hash(normalized)
        bucket == IF block_hash \in DOMAIN st.block_hashes
                  THEN st.block_hashes[block_hash] ELSE <<>>
        entry == [file |-> file.path, line |-> i + 1]
    IN IF IsTrivial(normalized) THEN st
       ELSE [duplicates |-> st.duplicates \o FirstPair(bucket, 1, file.path, i + 1),
             block_hashes |->
                 [h \in DOMAIN st.block_hashes \cup {block_hash} |->
                     IF h = block_hash THEN Append(bucket, entry)
                     ELSE st.block_hashes[h]]]

\* the loop for i = lo..hi, in order (by halves, each half finished before
\* the next is entered)
RECURSIVE ScanBlocks(_, _, _, _)
ScanBlocks(file, lo, hi, st) ==
    IF lo > hi THEN st
    ELSE IF lo = hi THEN ScanBlock(file, lo, st)
    ELSE LET mid == (lo + hi) \div 2
             left == ScanBlocks(file, lo, mid, st)
         IN IF Len(left.duplicates) >= 0 THEN ScanBlocks(file, mid + 1, hi, left)
            ELSE left

\* a line of n characters c and its line break
CharLine(c, n) == [i \in 1..n |-> c] \o <<10>>

\* n lines of w letters each, the k-th of the letter after the k-th of "a..."
LetterLines(n, w) == [k \in 1..n |-> CharLine(96 + k, w)]

\* what a file holds: six lines of 12 letters each; six lines of 9 letters;
\* twelve and sixty-one equal lines; three lines of 16 letters followed by
\* empty lines, by lines of blanks, by the words "pp qq" / "rr" and by the
\* same words broken as "pp" / "qq rr"; six lines of which the first ends in
\* "b@" where the first file has "aa"; a file that cannot be read
DupFileContents ==
    {[readable |-> FALSE, lines |-> <<>>],
     [readable |-> TRUE, lines |-> <<>>],
     [readable |-> TRUE, lines |-> LetterLines(6, 12)],
     [readable |-> TRUE, lines |-> LetterLines(6, 9)],
     [readable |-> TRUE, lines |-> [k \in 1..12 |-> CharLine(97, 12)]],
     [readable |-> TRUE, lines |-> [k \in 1..61 |-> CharLine(97, 12)]],
     [readable |-> TRUE, lines |-> LetterLines(3, 16) \o <<<<10>>, <<10>>, <<10>>>>],
     [readable |-> TRUE, lines |-> LetterLines(3, 16) \o <<<<32, 32, 10>>, <<9, 10>>>>],
     [readable |-> TRUE,
      lines |-> LetterLines(3, 16) \o <<<<112, 112, 32, 113, 113, 10>>, <<114, 114, 10>>>>],
     [readable |-> TRUE,
      lines |-> LetterLines(3, 16) \o <<<<112, 112, 10>>, <<113, 113, 32, 114, 114, 10>>>>],
     [readable |-> TRUE,
      lines |-> <<[i \in 1..10 |-> 97] \o <<98, 64, 10>>>> \o Tail(LetterLines(6, 12))]}

InitDup ==
    /\ python_files \in FileLists(DupFileContents, MaxDupFiles)
    /\ scan_pc = "loop"
    /\ file_i = 1
    /\ god_classes = <<>>
    /\ duplicates = <<>>
    /\ block_hashes = <<>>
    /\ dead_code = <<>>
    /\ all_definitions = <<>>
    /\ all_usages = {}
    /\ dimensions = <<>>
    /\ pc = "idle"
    /\ tools_used = <<>>
    /\ tools_failed = <<>>
    /\ files_analyzed = 0
    /\ files_skipped = 0
    /\ results = <<>>
    /\ import_graph = MakeGraph(<<>>, <<>>, <<>>, <<>>)
    /\ cd_pc = "idle"
    /\ root_i = 1
    /\ visited = {}
    /\ rec_stack = {}
    /\ circular_deps = <<>>
    /\ dfs_log = <<>>
    /\ RunsIdle
    /\ SolidIdle

\* one iteration of `for py_file in python_files`: a file that cannot be
\* read raises in open() or readlines() and is passed over
DupScanFile ==
    /\ scan_pc = "loop"
    /\ file_i <= Len(python_files)
    /\ LET file == python_files[file_i]
           st == IF file.content.readable
                 THEN ScanBlocks(file, 0, Len(file.content.lines) - block_size,
                                 [duplicates |-> duplicates,
                                  block_hashes |-> block_hashes])
                 ELSE [duplicates |-> duplicates, block_hashes |-> block_hashes]
       IN /\ duplicates' = st.duplicates
          /\ block_hashes' = st.block_hashes
    /\ file_i' = file_i + 1
    /\ UNCHANGED <<python_files, scan_pc, god_classes, dead_code, all_definitions,
                   all_usages, analyzeVars, cycleVars, runVars,
                   solidVars>>

\* `return duplicates[:50]`
DupReturn ==
    /\ scan_pc = "loop"
    /\ file_i > Len(python_files)
    /\ duplicates' = SubSeq(duplicates, 1, Min(Len(duplicates), DuplicateLimit))
    /\ scan_pc' = "returned"
    /\ UNCHANGED <<python_files, file_i, god_classes, block_hashes, dead_code,
                   all_definitions, all_usages, analyzeVars, cycleVars, runVars,
                   solidVars>>

NextDup == DupScanFile \/ DupReturn

SpecDup == InitDup /\ [][NextDup]_vars

(***************************************************************************)
(* _detect_dead_code                                                       *)
(*                                                                         *)
(* An identifier is the sequence of its character codes.  A file that      *)
(* parses is what the two ast.walk loops read of it: its function and      *)
(* class definitions, the names its Name, Attribute and Call nodes add to  *)
(* all_usages, and its import statements, each in the order of the walk.   *)
(***************************************************************************)
MaxDeadFiles == 2

\* name.startswith('_')
StartsWithUnderscore(name) == Len(name) > 0 /\ name[1] = 95

\* alias.name.split('.')[0]
FirstComponent(name) ==
    IF \E k \in 1..Len(name) : name[k] = 46
    THEN SubSeq(name, 1, (CHOOSE k \in 1..Len(name) :
                             name[k] = 46 /\ \A m \in 1..(k - 1) : name[m] # 46) - 1)
    ELSE name

\* `alias.asname or ...`: asname is None (here the empty sequence) when the
\* import has no `as`
BoundName(kind, alias) ==
    IF alias.asname # <<>> THEN alias.asname
    ELSE IF kind = "Import" THEN FirstComponent(alias.name)
    ELSE alias.name

\* the two conditions under which an alias is appended to dead_code
IsUnusedImport(kind, alias, usages) ==
    LET name == BoundName(kind, alias) IN
    /\ name \notin usages
    /\ kind = "ImportFrom" => name # <<42>>
    /\ ~StartsWithUnderscore(name)

\* the 'name' of the entry: alias.name, after `module.` for a from-import
\* that names a module
ImportEntryName(node, alias) ==
    IF node.kind = "ImportFrom" /\ node.module # <<>>
    THEN node.module \o <<46>> \o alias.name
    ELSE alias.name

\* pass 1 of a file: the public definitions into all_definitions (a key
\* that is there already keeps its place and takes the new value)
RECURSIVE CollectDefinitions(_, _, _, _)
CollectDefinitions(defs, relative_path, nodes, k) ==
    IF k > Len(nodes) THEN defs
    ELSE LET node == nodes[k]
             entry == [key |-> <<relative_path, node.name>>, file |-> relative_path,
                       name |-> node.name, line |-> node.lineno, type |-> node.type]
             next == IF StartsWithUnderscore(node.name) THEN defs
                     ELSE IF \E m \in 1..Len(defs) : defs[m].key = entry.key
                     THEN [m \in 1..Len(defs) |->
                              IF defs[m].key = entry.key THEN entry ELSE defs[m]]
                     ELSE Append(defs, entry)
         IN CollectDefinitions(next, relative_path, nodes, k + 1)

\* `for alias in node.names` of one Import or ImportFrom node
RECURSIVE UnusedAliases(_, _, _, _)
UnusedAliases(relative_path, node, k, usages) ==
    IF k > Len(node.names) THEN <<>>
    ELSE (IF IsUnusedImport(node.kind, node.names[k], usages)
          THEN <<[file |-> relative_path, line |-> node.lineno, type |-> "unused_import",
                  name |-> ImportEntryName(node, node.names[k])]>>
          ELSE <<>>)
         \o UnusedAliases(relative_path, node, k + 1, usages)

\* pass 2 of a file: the second ast.walk, over its import nodes
RECURSIVE UnusedImports(_, _, _, _)
UnusedImports(relative_path, nodes, k, usages) ==
    IF k > Len(nodes) THEN <<>>
    ELSE UnusedAliases(relative_path, nodes[k], 1, usages)
         \o UnusedImports(relative_path, nodes, k + 1, usages)

EntryPoints == {<<109, 97, 105, 110>>, <<115, 101, 116, 117, 112>>, <<116, 101, 97, 114, 100, 111, 119, 110>>, <<114, 117, 110>>}

\* the loop over all_definitions.items() after the files
RECURSIVE UnusedDefinitions(_, _, _)
UnusedDefinitions(defs, k, usages) ==
    IF k > Len(defs) THEN <<>>
    ELSE (IF defs[k].name \notin usages /\ defs[k].name \notin EntryPoints
          THEN <<[file |-> defs[k].file, line |-> defs[k].line,
                  type |-> IF defs[k].type = "function" THEN "potentially_unused_function"
                           ELSE "potentially_unused_class",
                  name |-> defs[k].name]>>
          ELSE <<>>)
         \o UnusedDefinitions(defs, k + 1, usages)

Alias(name, asname) == [name |-> name, asname |-> asname]

\* what a file holds:
\*   a text that ast.parse rejects;
\*   `import os.path` and `def helper` with no use of either;
\*   `def main` using os and helper, no import;
\*   `import numpy as np` and `np.array` used;
\*   `import numpy as np, _private` and nothing used;
\*   `from pkg import *, helper as _h` and `from . import helper`, a class
\*   Helper and a function helper, nothing used
DeadFileContents ==
    {[parses |-> FALSE, definitions |-> <<>>, usages |-> {}, imports |-> <<>>],
     [parses |-> TRUE,
      definitions |-> <<[name |-> <<104, 101, 108, 112, 101, 114>>, lineno |-> 3, type |-> "function"]>>,
      usages |-> {},
      imports |-> <<[kind |-> "Import", module |-> <<>>, lineno |-> 1,
                     names |-> <<Alias(<<111, 115, 46, 112, 97, 116, 104>>, <<>>)>>]>>],
     [parses |-> TRUE,
      definitions |-> <<[name |-> <<109, 97, 105, 110>>, lineno |-> 1, type |-> "function"]>>,
      usages |-> {<<111, 115>>, <<104, 101, 108, 112, 101, 114>>},
      imports |-> <<>>],
     [parses |-> TRUE,
      definitions |-> <<>>,
      usages |-> {<<110, 112>>, <<97, 114, 114, 97, 121>>},
      imports |-> <<[kind |-> "Import", module |-> <<>>, lineno |-> 1,
                     names |-> <<Alias(<<110, 117, 109, 112, 121>>, <<110, 112>>)>>]>>],
     [parses |-> TRUE,
      definitions |-> <<>>,
      usages |-> {},
      imports |-> <<[kind |-> "Import", module |-> <<>>, lineno |-> 1,
                     names |-> <<Alias(<<110, 117, 109, 112, 121>>, <<110, 112>>), Alias(<<95, 112, 114, 105, 118, 97, 116, 101>>, <<>>)>>]>>],
     [parses |-> TRUE,
      definitions |-> <<[name |-> <<72, 101, 108, 112, 101, 114>>, lineno |-> 3, type |-> "class"],
                        [name |-> <<104, 101, 108, 112, 101, 114>>, lineno |-> 5, type |-> "function"]>>,
      usages |-> {},
      imports |-> <<[kind |-> "ImportFrom", module |-> <<112, 107, 103>>, lineno |-> 1,
                     names |-> <<Alias(<<42>>, <<>>), Alias(<<104, 101, 108, 112, 101, 114>>, <<95, 104>>)>>],
                    [kind |-> "ImportFrom", module |-> <<>>, lineno |-> 2,
                     names |-> <<Alias(<<104, 101, 108, 112, 101, 114>>, <<>>)>>]>>]}

InitDead ==
    /\ python_files \in FileLists(DeadFileContents, MaxDeadFiles)
    /\ scan_pc = "loop"
    /\ file_i = 1
    /\ god_classes = <<>>
    /\ duplicates = <<>>
    /\ block_hashes = <<>>
    /\ dead_code = <<>>
    /\ all_definitions = <<>>
    /\ all_usages = {}
    /\ dimensions = <<>>
    /\ pc = "idle"
    /\ tools_used = <<>>
    /\ tools_failed = <<>>
    /\ files_analyzed = 0
    /\ files_skipped = 0
    /\ results = <<>>
    /\ import_graph = MakeGraph(<<>>, <<>>, <<>>, <<>>)
    /\ cd_pc = "idle"
    /\ root_i = 1
    /\ visited = {}
    /\ rec_stack = {}
    /\ circular_deps = <<>>
    /\ dfs_log = <<>>
    /\ RunsIdle
    /\ SolidIdle

\* one iteration of `for py_file in python_files`, from the collections st:
\* ast.parse raises on a file that does not parse, before anything is
\* collected; otherwise the first walk adds the file's definitions and
\* usages to the two collections, which are shared by all files, and the
\* second walk tests the file's imports against all_usages as it then is
DeadFileStep(file, st) ==
    IF file.content.parses
    THEN LET usages == st.all_usages \cup file.content.usages IN
         [all_definitions |-> CollectDefinitions(st.all_definitions, file.path,
                                                 file.content.definitions, 1),
          all_usages |-> usages,
          dead_code |-> st.dead_code
                        \o UnusedImports(file.path, file.content.imports, 1, usages)]
    ELSE st

\* the list as it is before `return dead_code[:100]`
DeadFindings(st) ==
    st.dead_code \o UnusedDefinitions(st.all_definitions, 1, st.all_usages)

\* the loop over the files from position i
RECURSIVE DeadScanFrom(_, _, _)
DeadScanFrom(files, i, st) ==
    IF i > Len(files) THEN st
    ELSE DeadScanFrom(files, i + 1, DeadFileStep(files[i], st))

\* _detect_dead_code(python_files), before the cut at 100
DetectDeadCode(files) ==
    DeadFindings(DeadScanFrom(files, 1, [all_definitions |-> <<>>, all_usages |-> {},
                                         dead_code |-> <<>>]))

DeadScanFile ==
    /\ scan_pc = "loop"
    /\ file_i <= Len(python_files)
    /\ LET st == DeadFileStep(python_files[file_i],
                              [all_definitions |-> all_definitions,
                               all_usages |-> all_usages, dead_code |-> dead_code])
       IN /\ all_definitions' = st.all_definitions
          /\ all_usages' = st.all_usages
          /\ dead_code' = st.dead_code
    /\ file_i' = file_i + 1
    /\ UNCHANGED <<python_files, scan_pc, god_classes, duplicates, block_hashes,
                   analyzeVars, cycleVars, runVars,
                   solidVars>>

\* the pass over all_definitions and `return dead_code[:100]`
DeadReturn ==
    /\ scan_pc = "loop"
    /\ file_i > Len(python_files)
    /\ LET all == DeadFindings([all_definitions |-> all_definitions,
                                 all_usages |-> all_usages, dead_code |-> dead_code])
       IN dead_code' = SubSeq(all, 1, Min(Len(all), DeadCodeLimit))
    /\ scan_pc' = "returned"
    /\ UNCHANGED <<python_files, file_i, god_classes, duplicates, block_hashes,
                   all_definitions, all_usages, analyzeVars, cycleVars, runVars,
                   solidVars>>

NextDead == DeadScanFile \/ DeadReturn

SpecDead == InitDead /\ [][NextDead]_vars

(***************************************************************************)
(* _find_tight_coupling, _find_ocp_violations, _find_dip_violations        *)
(*                                                                         *)
(* A file that parses is its syntax tree.  A node of the tree has its      *)
(* type, its name (the name of a definition, the id of a Name, the attr of *)
(* an Attribute; a sequence of character codes), its line and its child    *)
(* nodes, field by field in the order ast.iter_child_nodes yields them:    *)
(* targets; value (the test of an If); func; body (the args of a Call);    *)
(* orelse.  Argument lists and expression contexts, which no detector      *)
(* looks at, are left out.                                                 *)
(***************************************************************************)
MaxSolidFiles == 2

Node(type, name, lineno, targets, value, func, body, orelse) ==
    [type |-> type, name |-> name, lineno |-> lineno, targets |-> targets,
     value |-> value, func |-> func, body |-> body, orelse |-> orelse]

Leaf(type, name, lineno) == Node(type, name, lineno, <<>>, <<>>, <<>>, <<>>, <<>>)

ChildNodes(node) == node.targets \o node.value \o node.func \o node.body \o node.orelse

RECURSIVE ChildrenOfAll(_, _)
ChildrenOfAll(nodes, k) ==
    IF k > Len(nodes) THEN <<>>
    ELSE ChildNodes(nodes[k]) \o ChildrenOfAll(nodes, k + 1)

\* ast.walk from the nodes of one level: breadth first, so level by level
RECURSIVE WalkFrom(_)
WalkFrom(level) ==
    IF level = <<>> THEN <<>> ELSE level \o WalkFrom(ChildrenOfAll(level, 1))

\* ast.walk(node)
Walk(node) == WalkFrom(<<node>>)

\* a Call whose func is a Name with an upper-case first character
IsInstantiation(node) ==
    /\ node.type = "Call"
    /\ node.func[1].type = "Name"
    /\ node.func[1].name[1] \in 65..90

IsInit(item) == item.type = "FunctionDef" /\ item.name = <<95, 95, 105, 110, 105, 116, 95, 95>>

\* init_instantiations of a class: one for every instantiation call met in
\* the walk of an __init__ of its body
RECURSIVE InitInstantiations(_, _)
InitInstantiations(body, k) ==
    IF k > Len(body) THEN 0
    ELSE (IF IsInit(body[k]) THEN Len(SelectSeq(Walk(body[k]), IsInstantiation)) ELSE 0)
         + InitInstantiations(body, k + 1)

IsTightlyCoupled(init_instantiations) == init_instantiations > 5

RECURSIVE CouplingIssuesOf(_, _, _)
CouplingIssuesOf(relative_path, nodes, k) ==
    IF k > Len(nodes) THEN <<>>
    ELSE LET node == nodes[k]
             init_instantiations == InitInstantiations(node.body, 1)
         IN (IF node.type = "ClassDef" /\ IsTightlyCoupled(init_instantiations)
             THEN <<[file |-> relative_path, class |-> node.name, line |-> node.lineno,
                     instantiations |-> init_instantiations]>>
             ELSE <<>>)
            \o CouplingIssuesOf(relative_path, nodes, k + 1)

\* the while loop that follows orelse while it is a single If
RECURSIVE ChainLength(_)
ChainLength(current) ==
    IF Len(current.orelse) = 1 /\ current.orelse[1].type = "If"
    THEN 1 + ChainLength(current.orelse[1])
    ELSE 1

IsLongChain(child) == child.type = "If" /\ ChainLength(child) >= 5

\* the inner walk of one FunctionDef: the first long chain is appended and
\* the walk left (break)
OcpViolationsOfFunction(relative_path, node) ==
    LET long == SelectSeq(Walk(node), IsLongChain) IN
    IF long = <<>> THEN <<>>
    ELSE <<[file |-> relative_path, function |-> node.name, line |-> long[1].lineno,
            elif_count |-> ChainLength(long[1])]>>

RECURSIVE OcpViolationsOf(_, _, _)
OcpViolationsOf(relative_path, nodes, k) ==
    IF k > Len(nodes) THEN <<>>
    ELSE (IF nodes[k].type = "FunctionDef"
          THEN OcpViolationsOfFunction(relative_path, nodes[k])
          ELSE <<>>)
         \o OcpViolationsOf(relative_path, nodes, k + 1)

\* concrete_deps of a class: for each Assign of its body whose value is an
\* instantiation, the class name once for every target of the Assign
RECURSIVE ConcreteDeps(_, _)
ConcreteDeps(body, k) ==
    IF k > Len(body) THEN <<>>
    ELSE LET item == body[k] IN
         (IF item.type = "Assign" /\ IsInstantiation(item.value[1])
          THEN [t \in 1..Len(item.targets) |-> item.value[1].func[1].name]
          ELSE <<>>)
         \o ConcreteDeps(body, k + 1)

IsDipViolation(concrete_deps) == Len(concrete_deps) >= 3

RECURSIVE DipViolationsOf(_, _, _)
DipViolationsOf(relative_path, nodes, k) ==
    IF k > Len(nodes) THEN <<>>
    ELSE LET node == nodes[k]
             concrete_deps == ConcreteDeps(node.body, 1)
         IN (IF node.type = "ClassDef" /\ IsDipViolation(concrete_deps)
             THEN <<[file |-> relative_path, class |-> node.name, line |-> node.lineno,
                     concrete_deps |-> concrete_deps]>>
             ELSE <<>>)
            \o DipViolationsOf(relative_path, nodes, k + 1)

\* what a file holds: a text that ast.parse rejects, or the tree of one of
\* the sources quoted below
SolidFileContents ==
    {[parses |-> FALSE, tree |-> Leaf("Module", <<>>, 0)],
     \*   class Pool:
     \*       def __init__(self):
     \*           self.a = Conn()
     \*           self.b = Conn()
     \*           self.c = Conn()
     \*           self.d = Conn()
     \*           self.e = Conn()
     \*           self.f = Conn()
     [parses |-> TRUE,
      tree |->
    Node("Module", <<>>, 0, <<>>, <<>>, <<>>, <<Node("ClassDef", <<80, 111, 111, 108>>, 1, <<>>, <<>>, <<>>, <<Node("FunctionDef", <<95, 95, 105, 110, 105, 116, 95, 95>>, 2, <<>>, <<>>, <<>>, <<Node("Assign", <<>>, 3, <<Node("Attribute", <<97>>, 3, <<>>, <<Leaf("Name", <<115, 101, 108, 102>>, 3)>>, <<>>, <<>>, <<>>)>>, <<Node("Call", <<>>, 3, <<>>, <<>>, <<Leaf("Name", <<67, 111, 110, 110>>, 3)>>, <<>>, <<>>)>>, <<>>, <<>>, <<>>),
                  Node("Assign", <<>>, 4, <<Node("Attribute", <<98>>, 4, <<>>, <<Leaf("Name", <<115, 101, 108, 102>>, 4)>>, <<>>, <<>>, <<>>)>>, <<Node("Call", <<>>, 4, <<>>, <<>>, <<Leaf("Name", <<67, 111, 110, 110>>, 4)>>, <<>>, <<>>)>>, <<>>, <<>>, <<>>),
                  Node("Assign", <<>>, 5, <<Node("Attribute", <<99>>, 5, <<>>, <<Leaf("Name", <<115, 101, 108, 102>>, 5)>>, <<>>, <<>>, <<>>)>>, <<Node("Call", <<>>, 5, <<>>, <<>>, <<Leaf("Name", <<67, 111, 110, 110>>, 5)>>, <<>>, <<>>)>>, <<>>, <<>>, <<>>),
                  Node("Assign", <<>>, 6, <<Node("Attribute", <<100>>, 6, <<>>, <<Leaf("Name", <<115, 101, 108, 102>>, 6)>>, <<>>, <<>>, <<>>)>>, <<Node("Call", <<>>, 6, <<>>, <<>>, <<Leaf("Name", <<67, 111, 110, 110>>, 6)>>, <<>>, <<>>)>>, <<>>, <<>>, <<>>),
                  Node("Assign", <<>>, 7, <<Node("Attribute", <<101>>, 7, <<>>, <<Leaf("Name", <<115, 101, 108, 102>>, 7)>>, <<>>, <<>>, <<>>)>>, <<Node("Call", <<>>, 7, <<>>, <<>>, <<Leaf("Name", <<67, 111, 110, 110>>, 7)>>, <<>>, <<>>)>>, <<>>, <<>>, <<>>),
                  Node("Assign", <<>>, 8, <<Node("Attribute", <<102>>, 8, <<>>, <<Leaf("Name", <<115, 101, 108, 102>>, 8)>>, <<>>, <<>>, <<>>)>>, <<Node("Call", <<>>, 8, <<>>, <<>>, <<Leaf("Name", <<67, 111, 110, 110>>, 8)>>, <<>>, <<>>)>>, <<>>, <<>>, <<>>)>>, <<>>)>>, <<>>)>>, <<>>)],
     \*   class Site:
     \*       def __init__(self):
     \*           self.a = A()
     \*           self.b = B()
     \*           self.c = C()
     \*           self.d = D()
     \*           self.e = E()
     \*           self.f = make()
     \*           self.g = m.F()
     \*       def build(self):
     \*           G()
     [parses |-> TRUE,
      tree |->
    Node("Module", <<>>, 0, <<>>, <<>>, <<>>, <<Node("ClassDef", <<83, 105, 116, 101>>, 1, <<>>, <<>>, <<>>, <<Node("FunctionDef", <<95, 95, 105, 110, 105, 116, 95, 95>>, 2, <<>>, <<>>, <<>>, <<Node("Assign", <<>>, 3, <<Node("Attribute", <<97>>, 3, <<>>, <<Leaf("Name", <<115, 101, 108, 102>>, 3)>>, <<>>, <<>>, <<>>)>>, <<Node("Call", <<>>, 3, <<>>, <<>>, <<Leaf("Name", <<65>>, 3)>>, <<>>, <<>>)>>, <<>>, <<>>, <<>>),
                  Node("Assign", <<>>, 4, <<Node("Attribute", <<98>>, 4, <<>>, <<Leaf("Name", <<115, 101, 108, 102>>, 4)>>, <<>>, <<>>, <<>>)>>, <<Node("Call", <<>>, 4, <<>>, <<>>, <<Leaf("Name", <<66>>, 4)>>, <<>>, <<>>)>>, <<>>, <<>>, <<>>),
                  Node("Assign", <<>>, 5, <<Node("Attribute", <<99>>, 5, <<>>, <<Leaf("Name", <<115, 101, 108, 102>>, 5)>>, <<>>, <<>>, <<>>)>>, <<Node("Call", <<>>, 5, <<>>, <<>>, <<Leaf("Name", <<67>>, 5)>>, <<>>, <<>>)>>, <<>>, <<>>, <<>>),
                  Node("Assign", <<>>, 6, <<Node("Attribute", <<100>>, 6, <<>>, <<Leaf("Name", <<115, 101, 108, 102>>, 6)>>, <<>>, <<>>, <<>>)>>, <<Node("Call", <<>>, 6, <<>>, <<>>, <<Leaf("Name", <<68>>, 6)>>, <<>>, <<>>)>>, <<>>, <<>>, <<>>),
                  Node("Assign", <<>>, 7, <<Node("Attribute", <<101>>, 7, <<>>, <<Leaf("Name", <<115, 101, 108, 102>>, 7)>>, <<>>, <<>>, <<>>)>>, <<Node("Call", <<>>, 7, <<>>, <<>>, <<Leaf("Name", <<69>>, 7)>>, <<>>, <<>>)>>, <<>>, <<>>, <<>>),
                  Node("Assign", <<>>, 8, <<Node("Attribute", <<102>>, 8, <<>>, <<Leaf("Name", <<115, 101, 108, 102>>, 8)>>, <<>>, <<>>, <<>>)>>, <<Node("Call", <<>>, 8, <<>>, <<>>, <<Leaf("Name", <<109, 97, 107, 101>>, 8)>>, <<>>, <<>>)>>, <<>>, <<>>, <<>>),
                  Node("Assign", <<>>, 9, <<Node("Attribute", <<103>>, 9, <<>>, <<Leaf("Name", <<115, 101, 108, 102>>, 9)>>, <<>>, <<>>, <<>>)>>, <<Node("Call", <<>>, 9, <<>>, <<>>, <<Node("Attribute", <<70>>, 9, <<>>, <<Leaf("Name", <<109>>, 9)>>, <<>>, <<>>, <<>>)>>, <<>>, <<>>)>>, <<>>, <<>>, <<>>)>>, <<>>),
              Node("FunctionDef", <<98, 117, 105, 108, 100>>, 10, <<>>, <<>>, <<>>, <<Node("Expr", <<>>, 11, <<>>, <<Node("Call", <<>>, 11, <<>>, <<>>, <<Leaf("Name", <<71>>, 11)>>, <<>>, <<>>)>>, <<>>, <<>>, <<>>)>>, <<>>)>>, <<>>)>>, <<>>)],
     \*   class Hub:
     \*       def __init__(self):
     \*           A()
     \*           B()
     \*           C()
     \*           D()
     \*           E()
     \*           F()
     [parses |-> TRUE,
      tree |->
    Node("Module", <<>>, 0, <<>>, <<>>, <<>>, <<Node("ClassDef", <<72, 117, 98>>, 1, <<>>, <<>>, <<>>, <<Node("FunctionDef", <<95, 95, 105, 110, 105, 116, 95, 95>>, 2, <<>>, <<>>, <<>>, <<Node("Expr", <<>>, 3, <<>>, <<Node("Call", <<>>, 3, <<>>, <<>>, <<Leaf("Name", <<65>>, 3)>>, <<>>, <<>>)>>, <<>>, <<>>, <<>>),
                  Node("Expr", <<>>, 4, <<>>, <<Node("Call", <<>>, 4, <<>>, <<>>, <<Leaf("Name", <<66>>, 4)>>, <<>>, <<>>)>>, <<>>, <<>>, <<>>),
                  Node("Expr", <<>>, 5, <<>>, <<Node("Call", <<>>, 5, <<>>, <<>>, <<Leaf("Name", <<67>>, 5)>>, <<>>, <<>>)>>, <<>>, <<>>, <<>>),
                  Node("Expr", <<>>, 6, <<>>, <<Node("Call", <<>>, 6, <<>>, <<>>, <<Leaf("Name", <<68>>, 6)>>, <<>>, <<>>)>>, <<>>, <<>>, <<>>),
                  Node("Expr", <<>>, 7, <<>>, <<Node("Call", <<>>, 7, <<>>, <<>>, <<Leaf("Name", <<69>>, 7)>>, <<>>, <<>>)>>, <<>>, <<>>, <<>>),
                  Node("Expr", <<>>, 8, <<>>, <<Node("Call", <<>>, 8, <<>>, <<>>, <<Leaf("Name", <<70>>, 8)>>, <<>>, <<>>)>>, <<>>, <<>>, <<>>)>>, <<>>)>>, <<>>)>>, <<>>)],
     \*   class Cfg:
     \*       a = b = c = Db()
     [parses |-> TRUE,
      tree |->
    Node("Module", <<>>, 0, <<>>, <<>>, <<>>, <<Node("ClassDef", <<67, 102, 103>>, 1, <<>>, <<>>, <<>>, <<Node("Assign", <<>>, 2, <<Leaf("Name", <<97>>, 2),
                  Leaf("Name", <<98>>, 2),
                  Leaf("Name", <<99>>, 2)>>, <<Node("Call", <<>>, 2, <<>>, <<>>, <<Leaf("Name", <<68, 98>>, 2)>>, <<>>, <<>>)>>, <<>>, <<>>, <<>>)>>, <<>>)>>, <<>>)],
     \*   class Svc:
     \*       a = Db()
     \*       b = Log()
     \*       c = Bus()
     \*       d = make()
     \*   class Two:
     \*       a = Db()
     \*       b = Log()
     \*       def __init__(self):
     \*           self.c = Bus()
     [parses |-> TRUE,
      tree |->
    Node("Module", <<>>, 0, <<>>, <<>>, <<>>, <<Node("ClassDef", <<83, 118, 99>>, 1, <<>>, <<>>, <<>>, <<Node("Assign", <<>>, 2, <<Leaf("Name", <<97>>, 2)>>, <<Node("Call", <<>>, 2, <<>>, <<>>, <<Leaf("Name", <<68, 98>>, 2)>>, <<>>, <<>>)>>, <<>>, <<>>, <<>>),
              Node("Assign", <<>>, 3, <<Leaf("Name", <<98>>, 3)>>, <<Node("Call", <<>>, 3, <<>>, <<>>, <<Leaf("Name", <<76, 111, 103>>, 3)>>, <<>>, <<>>)>>, <<>>, <<>>, <<>>),
              Node("Assign", <<>>, 4, <<Leaf("Name", <<99>>, 4)>>, <<Node("Call", <<>>, 4, <<>>, <<>>, <<Leaf("Name", <<66, 117, 115>>, 4)>>, <<>>, <<>>)>>, <<>>, <<>>, <<>>),
              Node("Assign", <<>>, 5, <<Leaf("Name", <<100>>, 5)>>, <<Node("Call", <<>>, 5, <<>>, <<>>, <<Leaf("Name", <<109, 97, 107, 101>>, 5)>>, <<>>, <<>>)>>, <<>>, <<>>, <<>>)>>, <<>>),
          Node("ClassDef", <<84, 119, 111>>, 6, <<>>, <<>>, <<>>, <<Node("Assign", <<>>, 7, <<Leaf("Name", <<97>>, 7)>>, <<Node("Call", <<>>, 7, <<>>, <<>>, <<Leaf("Name", <<68, 98>>, 7)>>, <<>>, <<>>)>>, <<>>, <<>>, <<>>),
              Node("Assign", <<>>, 8, <<Leaf("Name", <<98>>, 8)>>, <<Node("Call", <<>>, 8, <<>>, <<>>, <<Leaf("Name", <<76, 111, 103>>, 8)>>, <<>>, <<>>)>>, <<>>, <<>>, <<>>),
              Node("FunctionDef", <<95, 95, 105, 110, 105, 116, 95, 95>>, 9, <<>>, <<>>, <<>>, <<Node("Assign", <<>>, 10, <<Node("Attribute", <<99>>, 10, <<>>, <<Leaf("Name", <<115, 101, 108, 102>>, 10)>>, <<>>, <<>>, <<>>)>>, <<Node("Call", <<>>, 10, <<>>, <<>>, <<Leaf("Name", <<66, 117, 115>>, 10)>>, <<>>, <<>>)>>, <<>>, <<>>, <<>>)>>, <<>>)>>, <<>>)>>, <<>>)],
     \*   def outer():
     \*       def inner():
     \*           if a:
     \*               pass
     \*           elif b:
     \*               pass
     \*           elif c:
     \*               pass
     \*           elif d:
     \*               pass
     \*           elif e:
     \*               pass
     [parses |-> TRUE,
      tree |->
    Node("Module", <<>>, 0, <<>>, <<>>, <<>>, <<Node("FunctionDef", <<111, 117, 116, 101, 114>>, 1, <<>>, <<>>, <<>>, <<Node("FunctionDef", <<105, 110, 110, 101, 114>>, 2, <<>>, <<>>, <<>>, <<Node("If", <<>>, 3, <<>>, <<Leaf("Name", <<97>>, 3)>>, <<>>, <<Leaf("Pass", <<>>, 4)>>, <<Node("If", <<>>, 5, <<>>, <<Leaf("Name", <<98>>, 5)>>, <<>>, <<Leaf("Pass", <<>>, 6)>>, <<Node("If", <<>>, 7, <<>>, <<Leaf("Name", <<99>>, 7)>>, <<>>, <<Leaf("Pass", <<>>, 8)>>, <<Node("If", <<>>, 9, <<>>, <<Leaf("Name", <<100>>, 9)>>, <<>>, <<Leaf("Pass", <<>>, 10)>>, <<Node("If", <<>>, 11, <<>>, <<Leaf("Name", <<101>>, 11)>>, <<>>, <<Leaf("Pass", <<>>, 12)>>, <<>>)>>)>>)>>)>>)>>, <<>>)>>, <<>>)>>, <<>>)],
     \*   def route():
     \*       if a:
     \*           pass
     \*       elif b:
     \*           pass
     \*       elif c:
     \*           pass
     \*       elif d:
     \*           pass
     \*       if a:
     \*           pass
     \*       elif b:
     \*           pass
     \*       elif c:
     \*           pass
     \*       elif d:
     \*           pass
     \*       elif e:
     \*           pass
     \*       elif f:
     \*           pass
     \*       else:
     \*           pass
     \*       if a:
     \*           pass
     \*       elif b:
     \*           pass
     \*       elif c:
     \*           pass
     \*       elif d:
     \*           pass
     \*       elif e:
     \*           pass
     [parses |-> TRUE,
      tree |->
    Node("Module", <<>>, 0, <<>>, <<>>, <<>>, <<Node("FunctionDef", <<114, 111, 117, 116, 101>>, 1, <<>>, <<>>, <<>>, <<Node("If", <<>>, 2, <<>>, <<Leaf("Name", <<97>>, 2)>>, <<>>, <<Leaf("Pass", <<>>, 3)>>, <<Node("If", <<>>, 4, <<>>, <<Leaf("Name", <<98>>, 4)>>, <<>>, <<Leaf("Pass", <<>>, 5)>>, <<Node("If", <<>>, 6, <<>>, <<Leaf("Name", <<99>>, 6)>>, <<>>, <<Leaf("Pass", <<>>, 7)>>, <<Node("If", <<>>, 8, <<>>, <<Leaf("Name", <<100>>, 8)>>, <<>>, <<Leaf("Pass", <<>>, 9)>>, <<>>)>>)>>)>>),
              Node("If", <<>>, 10, <<>>, <<Leaf("Name", <<97>>, 10)>>, <<>>, <<Leaf("Pass", <<>>, 11)>>, <<Node("If", <<>>, 12, <<>>, <<Leaf("Name", <<98>>, 12)>>, <<>>, <<Leaf("Pass", <<>>, 13)>>, <<Node("If", <<>>, 14, <<>>, <<Leaf("Name", <<99>>, 14)>>, <<>>, <<Leaf("Pass", <<>>, 15)>>, <<Node("If", <<>>, 16, <<>>, <<Leaf("Name", <<100>>, 16)>>, <<>>, <<Leaf("Pass", <<>>, 17)>>, <<Node("If", <<>>, 18, <<>>, <<Leaf("Name", <<101>>, 18)>>, <<>>, <<Leaf("Pass", <<>>, 19)>>, <<Node("If", <<>>, 20, <<>>, <<Leaf("Name", <<102>>, 20)>>, <<>>, <<Leaf("Pass", <<>>, 21)>>, <<Leaf("Pass", <<>>, 23)>>)>>)>>)>>)>>)>>),
              Node("If", <<>>, 24, <<>>, <<Leaf("Name", <<97>>, 24)>>, <<>>, <<Leaf("Pass", <<>>, 25)>>, <<Node("If", <<>>, 26, <<>>, <<Leaf("Name", <<98>>, 26)>>, <<>>, <<Leaf("Pass", <<>>, 27)>>, <<Node("If", <<>>, 28, <<>>, <<Leaf("Name", <<99>>, 28)>>, <<>>, <<Leaf("Pass", <<>>, 29)>>, <<Node("If", <<>>, 30, <<>>, <<Leaf("Name", <<100>>, 30)>>, <<>>, <<Leaf("Pass", <<>>, 31)>>, <<Node("If", <<>>, 32, <<>>, <<Leaf("Name", <<101>>, 32)>>, <<>>, <<Leaf("Pass", <<>>, 33)>>, <<>>)>>)>>)>>)>>)>>, <<>>)>>, <<>>)]}

InitSolid ==
    /\ python_files \in FileLists(SolidFileContents, MaxSolidFiles)
    /\ scan_pc = "coupling"
    /\ file_i = 1
    /\ SolidIdle
    /\ god_classes = <<>>
    /\ duplicates = <<>>
    /\ block_hashes = <<>>
    /\ dead_code = <<>>
    /\ all_definitions = <<>>
    /\ all_usages = {}
    /\ dimensions = <<>>
    /\ pc = "idle"
    /\ tools_used = <<>>
    /\ tools_failed = <<>>
    /\ files_analyzed = 0
    /\ files_skipped = 0
    /\ results = <<>>
    /\ import_graph = MakeGraph(<<>>, <<>>, <<>>, <<>>)
    /\ cd_pc = "idle"
    /\ root_i = 1
    /\ visited = {}
    /\ rec_stack = {}
    /\ circular_deps = <<>>
    /\ dfs_log = <<>>
    /\ RunsIdle

\* what a step of one of the three detectors leaves alone
SolidFrame ==
    UNCHANGED <<python_files, god_classes, duplicates, block_hashes, dead_code,
                all_definitions, all_usages, analyzeVars, cycleVars, runVars>>

\* one iteration of `for py_file in python_files` in _find_tight_coupling;
\* a file that does not parse raises and is passed over
CouplingScanFile ==
    /\ scan_pc = "coupling"
    /\ file_i <= Len(python_files)
    /\ LET file == python_files[file_i] IN
       coupling_issues' =
           IF file.content.parses
           THEN coupling_issues \o CouplingIssuesOf(file.path, Walk(file.content.tree), 1)
           ELSE coupling_issues
    /\ file_i' = file_i + 1
    /\ UNCHANGED <<scan_pc, ocp_violations, dip_violations>>
    /\ SolidFrame

\* `return coupling_issues`; analyze_scalability calls _find_ocp_violations
\* next, with the same files
CouplingReturn ==
    /\ scan_pc = "coupling"
    /\ file_i > Len(python_files)
    /\ scan_pc' = "ocp"
    /\ file_i' = 1
    /\ UNCHANGED solidVars
    /\ SolidFrame

OcpScanFile ==
    /\ scan_pc = "ocp"
    /\ file_i <= Len(python_files)
    /\ LET file == python_files[file_i] IN
       ocp_violations' =
           IF file.content.parses
           THEN ocp_violations \o OcpViolationsOf(file.path, Walk(file.content.tree), 1)
           ELSE ocp_violations
    /\ file_i' = file_i + 1
    /\ UNCHANGED <<scan_pc, coupling_issues, dip_violations>>
    /\ SolidFrame

\* `return violations`; _find_dip_violations is called next
OcpReturn ==
    /\ scan_pc = "ocp"
    /\ file_i > Len(python_files)
    /\ scan_pc' = "dip"
    /\ file_i' = 1
    /\ UNCHANGED solidVars
    /\ SolidFrame

DipScanFile ==
    /\ scan_pc = "dip"
    /\ file_i <= Len(python_files)
    /\ LET file == python_files[file_i] IN
       dip_violations' =
           IF file.content.parses
           THEN dip_violations \o DipViolationsOf(file.path, Walk(file.content.tree), 1)
           ELSE dip_violations
    /\ file_i' = file_i + 1
    /\ UNCHANGED <<scan_pc, coupling_issues, ocp_violations>>
    /\ SolidFrame

DipReturn ==
    /\ scan_pc = "dip"
    /\ file_i > Len(python_files)
    /\ scan_pc' = "returned"
    /\ UNCHANGED <<file_i, solidVars>>
    /\ SolidFrame

NextSolid ==
    \/ CouplingScanFile \/ CouplingReturn
    \/ OcpScanFile \/ OcpReturn
    \/ DipScanFile \/ DipReturn

SpecSolid == InitSolid /\ [][NextSolid]_vars

(***************************************************************************)
(* Properties of analyze() (under Spec)                                    *)
(***************************************************************************)
Computed == results.dimensions

ScoreOf(d) == DimGet(Computed, d).score

HealthComputed == pc \in {"priority_actions", "finalize_meta", "done"}

ActionsComputed == pc \in {"finalize_meta", "done"}

\* C1: the score of every dimension result is in 20..100.
ScoresWithinRange ==
    \A d \in DimKeys(Computed) : ScoreOf(d) \in 20..100

\* C2: overall_health is in 0..100.
OverallHealthWithinRange ==
    HealthComputed => results.overall_health \in 0..100

\* C3: for a non-empty set of computed dimensions overall_health is a convex
\* combination of their scores: it lies between the lowest and the highest.
OverallHealthIsConvex ==
    (HealthComputed /\ Computed # <<>>) =>
        /\ \E d \in DimKeys(Computed) : ScoreOf(d) <= results.overall_health
        /\ \E d \in DimKeys(Computed) : results.overall_health <= ScoreOf(d)

\* the weighted sum over the set of computed dimensions, in hundredths,
\* taken in no particular order
RECURSIVE SumOverSet(_)
SumOverSet(S) ==
    IF S = {} THEN 0
    ELSE LET d == CHOOSE x \in S : TRUE IN
         weights[d] * ScoreOf(d) + SumOverSet(S \ {d})

\* C4: overall_health is the rounded sum of weight * score over the
\* dimensions present in the results (an integer nearest to it), whatever
\* the order of the requested list; absent dimensions contribute nothing.
OverallHealthIsRoundedWeightedSum ==
    HealthComputed =>
        LET exact == SumOverSet(DimKeys(Computed))
            shown == 100 * results.overall_health
        IN shown - exact <= 50 /\ exact - shown <= 50

\* health was computed for a request that lists three dimensions in another
\* order than analyze() runs them
HealthOfReorderedRequest ==
    /\ pc = "done"
    /\ dimensions = <<"reusability", "security", "maintainability">>
    /\ DimKeys(Computed) = {"reusability", "security", "maintainability"}
    /\ ScoreOf("maintainability") = 80
    /\ ScoreOf("security") < 100
    /\ results.overall_health > 0

ActionsFor(d) ==
    {i \in 1..Len(results.priority_actions) : results.priority_actions[i].dimension = d}

\* C8: a computed dimension with score s has exactly one action, of priority
\* high, when s < 60; exactly one, of priority medium, when 60 <= s < 75;
\* none when s >= 75; and no action names a dimension that was not computed.
OneActionPerWeakDimension ==
    ActionsComputed =>
        /\ \A d \in DimKeys(Computed) :
             LET s == ScoreOf(d) IN
             /\ s < 60 =>
                  /\ Cardinality(ActionsFor(d)) = 1
                  /\ \A i \in ActionsFor(d) : results.priority_actions[i].priority = "high"
             /\ (60 <= s /\ s < 75) =>
                  /\ Cardinality(ActionsFor(d)) = 1
                  /\ \A i \in ActionsFor(d) : results.priority_actions[i].priority = "medium"
             /\ s >= 75 => ActionsFor(d) = {}
             /\ \A i \in ActionsFor(d) : results.priority_actions[i].score = s
        /\ \A i \in 1..Len(results.priority_actions) :
             results.priority_actions[i].dimension \in DimKeys(Computed)

\* a report with a dimension at exactly 60, one below 60 and one at 75 or more
ActionsAtTheThresholds ==
    /\ pc = "done"
    /\ "maintainability" \in DimKeys(Computed) /\ ScoreOf("maintainability") = 60
    /\ \E d \in DimKeys(Computed) : ScoreOf(d) < 60
    /\ \E d \in DimKeys(Computed) : ScoreOf(d) >= 75
    /\ Len(results.priority_actions) >= 2

\* C9: priority_actions is sorted by score, lowest first (so every high
\* action precedes every medium one), has at most 5 entries and names each
\* dimension at most once.
ActionsSortedAndBounded ==
    ActionsComputed =>
        LET a == results.priority_actions IN
        /\ Len(a) <= 5
        /\ \A i, j \in 1..Len(a) :
             /\ i < j => a[i].score <= a[j].score
             /\ (a[i].priority = "high" /\ a[j].priority = "medium") => i < j
             /\ a[i].dimension = a[j].dimension => i = j

\* the worst dimension was analysed after a better one and still comes first
ActionsReordered ==
    /\ pc = "done"
    /\ Len(results.priority_actions) >= 3
    /\ results.priority_actions[1].dimension = "security"
    /\ results.priority_actions[1].priority = "high"
    /\ \E i \in 2..Len(results.priority_actions) :
         /\ results.priority_actions[i].dimension = "maintainability"
         /\ results.priority_actions[i].priority = "medium"

\* the expected tools that ran successfully in this run: those recorded in
\* tools_used, and pylint when its similarity run gave the duplicates
ToolsThatRan ==
    {t \in ExpectedTools : t \in Range(tools_used)}
        \cup (IF "reusability" \in DimKeys(Computed)
                 /\ DimGet(Computed, "reusability").pylint_used
              THEN {"pylint"} ELSE {})

\* C10: the confidence is 1.0 minus 0.1 per failed tool minus 0.05 per
\* expected tool that did not run successfully, floored at 0.5 (in
\* hundredths).
ConfidenceCountsToolsThatRan ==
    pc = "done" =>
        results.meta.confidence =
            Max(50, 100 - 10 * Len(tools_failed)
                        - 5 * Cardinality(ExpectedTools \ ToolsThatRan))

\* `radon cc` was absent or failed in this run
RadonFailed == "radon" \in FailedTools(tools_failed)

\* C11: when radon is absent or fails, analyze() still completes, its
\* report holds a result with a score for every requested dimension, and the
\* reported confidence is below 1.0 and not below 0.5 (in hundredths).
RadonFailureStillReports ==
    RadonFailed =>
        /\ pc # "raised"
        /\ pc = "done" =>
             /\ \A d \in Range(dimensions) \cap Range(DimensionNames) :
                  d \in DimKeys(Computed) /\ ScoreOf(d) \in Int
             /\ results.meta.confidence \in 50..99

\* the tools an invocation of which failed in this run: radon cc and bandit
\* failures are in self.tools_failed; a failed `radon mi` leaves no
\* maintainability index; a failed pylint leaves pylint_used False
FailedInvocations ==
    FailedTools(tools_failed)
        \cup (IF "maintainability" \in DimKeys(Computed)
                 /\ ~DimGet(Computed, "maintainability").has_maintainability_index
              THEN {"radon"} ELSE {})
        \cup (IF "reusability" \in DimKeys(Computed)
                 /\ ~DimGet(Computed, "reusability").pylint_used
              THEN {"pylint"} ELSE {})

\* C12: every external tool whose invocation failed during analyze() is in
\* the final meta.tools_failed.
FailedInvocationsAreReported ==
    pc = "done" => FailedInvocations \subseteq Range(results.meta.tools_failed)

\* C13: no tool name is both in tools_used and in tools_failed.
ToolsHaveOneStatus ==
    Range(tools_used) \cap FailedTools(tools_failed) = {}

\* C15: when the requested list holds a name that is none of the five
\* dimensions, no dimension analysis is run and no report is produced.
UnknownDimensionIsFatal ==
    (\E i \in 1..Len(dimensions) : dimensions[i] \notin Range(DimensionNames)) =>
        /\ DimKeys(Computed) = {}
        /\ pc # "done"

\* the positions of analyze(), in the order of its statements
AnalyzeSteps ==
    DimensionNames \o <<"overall_health", "priority_actions", "finalize_meta", "done">>

\* C26: analyze() goes through the five dimensions in their fixed order and
\* then through overall_health, priority_actions and meta; a dimension
\* analysis runs only at its own position, only when requested, and adds
\* its result once; nothing changes the dimension results afterwards; and
\* at return the results are those of the requested known dimensions, with
\* overall_health and priority_actions computed from them.
AnalyzeRunsInFixedOrder ==
    /\ [][/\ pc' \in {AnalyzeSteps[IndexOf(AnalyzeSteps, pc) + 1], "raised"}
          /\ results'.dimensions # results.dimensions =>
                /\ pc \in Range(dimensions) \cap Range(DimensionNames)
                /\ pc \notin DimKeys(results.dimensions)
                /\ Len(results'.dimensions) = Len(results.dimensions) + 1
                /\ SubSeq(results'.dimensions, 1, Len(results.dimensions))
                      = results.dimensions
                /\ results'.dimensions[Len(results'.dimensions)].dimension = pc
          /\ (pc \in Range(dimensions) \cap Range(DimensionNames) /\ pc' # "raised") =>
                pc \in DimKeys(results'.dimensions)
          /\ results'.overall_health # results.overall_health => pc = "overall_health"
          /\ results'.priority_actions # results.priority_actions => pc = "priority_actions"
          /\ results'.meta # results.meta => pc = "finalize_meta"]_vars
    /\ [](pc = "done" =>
            /\ DimKeys(results.dimensions) = Range(dimensions) \cap Range(DimensionNames)
            /\ results.overall_health \in Round(WeightedSum(results.dimensions, 1))
            /\ results.priority_actions = PriorityActions(results.dimensions))

\* analyze() has returned for the request reusability, security,
\* maintainability: the three results were added in the fixed order
RequestAnalyzedInFixedOrder ==
    /\ pc = "done"
    /\ dimensions = <<"reusability", "security", "maintainability">>
    /\ [i \in 1..Len(results.dimensions) |-> results.dimensions[i].dimension]
          = <<"maintainability", "security", "reusability">>
    /\ Len(results.priority_actions) >= 1

\* C29: a security result with at least one finding (a bandit finding, a
\* static pattern finding or the dependency entry of safety) has a severity
\* other than 'none' and a score below 100; and the severity is 'high' when
\* a finding is high, else 'medium' when one is medium, else 'low'.
SecurityFindingsShowInSeverity ==
    "security" \in DimKeys(results.dimensions) =>
        LET r == DimGet(results.dimensions, "security")
            high == r.vulnerabilities.high + r.static_issues.high
            medium == r.vulnerabilities.medium + r.static_issues.medium
            low == r.vulnerabilities.low + r.static_issues.low
            findings == high + medium + low + r.vulnerabilities.dependency
        IN findings > 0 =>
              /\ r.severity # "none"
              /\ r.score < 100
              /\ r.severity = (IF high > 0 THEN "high"
                               ELSE IF medium > 0 THEN "medium" ELSE "low")

(***************************************************************************)
(* Properties of analyze() calls on one project (under SpecRuns)           *)
(***************************************************************************)
\* C14: a file that does not parse is recorded as skipped: the
\* files_skipped of every report counts the files whose parse failed.
UnparsableFilesAreCounted ==
    \A i \in 1..Len(reports) :
        reports[i].meta.coverage.files_skipped = env.unparsable

\* C16: two analyze() calls on the same unchanged project and tools return
\* identical reports.
RerunGivesSameReport ==
    \A i, j \in 1..Len(reports) : reports[i] = reports[j]

(***************************************************************************)
(* Properties of _find_god_classes (under SpecGod)                         *)
(***************************************************************************)
\* the issues emitted for the class named name of the file at path
GodIssuesFor(path, name) ==
    {i \in 1..Len(god_classes) :
        god_classes[i].file = path /\ god_classes[i].class = name}

\* C17: a class gets one issue when it has more than 20 direct methods or
\* spans more than 500 lines, and none otherwise; never more than one.
GodClassFlaggedOnceIffOverThreshold ==
    scan_pc = "returned" =>
        \A f \in 1..Len(python_files) :
            \A k \in 1..Len(python_files[f].content.classes) :
                LET c == python_files[f].content.classes[k]
                    over == \/ c.node.FunctionDef + c.node.AsyncFunctionDef > 20
                            \/ c.node.end_lineno - c.node.lineno + 1 > 500
                IN Cardinality(GodIssuesFor(python_files[f].path, c.name))
                       = IF over THEN 1 ELSE 0

\* a class with 21 methods and 501 lines was flagged once, and a class with
\* 20 methods and 500 lines in another file was not flagged
GodClassAtBothThresholds ==
    /\ scan_pc = "returned"
    /\ Len(python_files) = 2
    /\ \A f \in 1..2 : Len(python_files[f].content.classes) = 1
    /\ LET c1 == python_files[1].content.classes[1].node
           c2 == python_files[2].content.classes[1].node
       IN /\ MethodCount(c1) = 21 /\ ClassLines(c1) = 501
          /\ MethodCount(c2) = 20 /\ ClassLines(c2) = 500
    /\ Len(god_classes) = 1
    /\ god_classes[1].file = "a.py"

(***************************************************************************)
(* Properties of _detect_duplicates_with_hashing (under SpecDup)           *)
(***************************************************************************)
\* the position in python_files of the file with the given path
FileAt(path) == CHOOSE f \in 1..Len(python_files) : python_files[f].path = path

LinesOf(f) == python_files[f].content.lines

\* the start lines (from 1) of the 5-line blocks of file f
BlockStarts(f) ==
    IF python_files[f].content.readable THEN 1..(Len(LinesOf(f)) - 4) ELSE {}

\* for every block: whether its normalized text has 50 characters or more,
\* and the hash of that text (the properties bind the table once per state:
\* \A T \in {BlockTable})
BlockTable ==
    [f \in 1..Len(python_files) |->
        [i \in BlockStarts(f) |->
            LET normalized == Normalized(JoinLines(SubSeq(LinesOf(f), i, i + 4)))
            IN [counted |-> Len(normalized) >= 50, hash |-> simple_hash(normalized)]]]

\* files f and g hold the same n lines from their lines a and b on
CommonRun(f, a, g, b, n) ==
    /\ a + n - 1 <= Len(LinesOf(f))
    /\ b + n - 1 <= Len(LinesOf(g))
    /\ \A k \in 0..(n - 1) : LinesOf(f)[a + k] = LinesOf(g)[b + k]

HasCommonRun(f, g, n) ==
    \E a \in 1..Len(LinesOf(f)), b \in 1..Len(LinesOf(g)) : CommonRun(f, a, g, b, n)

\* the files at positions f and g are reported as a similarity pair
ReportedAsPair(f, g) ==
    \E k \in 1..Len(duplicates) :
        {duplicates[k].file, duplicates[k].similar_to}
            = {python_files[f].path, python_files[g].path}

MatchesEarlier(T, f, i, g, j) ==
    /\ g < f \/ (g = f /\ j < i)
    /\ T[f][i].counted /\ T[g][j].counted
    /\ T[f][i].hash = T[g][j].hash
    /\ g # f \/ i - j > 5

\* C19 (as stated): any two counted blocks with the same hash in different
\* files, or in one file more than 5 lines apart, are reported as a pair,
\* and blocks of one file 5 or fewer lines apart never are.
SameHashBlocksAllPaired ==
    scan_pc = "returned" =>
        \A T \in {BlockTable} :
        /\ \A f, g \in 1..Len(python_files) :
             \A i \in BlockStarts(f), j \in BlockStarts(g) :
                MatchesEarlier(T, f, i, g, j) =>
                    \E k \in 1..Len(duplicates) :
                        /\ duplicates[k].file = python_files[f].path
                        /\ duplicates[k].line = i
                        /\ duplicates[k].similar_to = python_files[g].path
                        /\ duplicates[k].similar_line = j
        /\ \A k \in 1..Len(duplicates) :
             duplicates[k].file = duplicates[k].similar_to
                => duplicates[k].line - duplicates[k].similar_line > 5

\* C19 (amended): each counted block that has an earlier block of the same
\* hash in another file, or in its file more than 5 lines before it, is
\* reported once, paired with the first such block of the scan; nothing
\* else is reported; the reports are in scan order and only the first 50
\* are returned.
BlocksPairedWithFirstMatch ==
    scan_pc = "returned" =>
        LET Blocks == UNION {{<<f, i>> : i \in BlockStarts(f)} : f \in 1..Len(python_files)}
            Before(c, b) == c[1] < b[1] \/ (c[1] = b[1] /\ c[2] < b[2])
        IN \A T \in {BlockTable} :
           \A Earlier \in {[b \in Blocks |->
                              {c \in Blocks : MatchesEarlier(T, b[1], b[2], c[1], c[2])}]} :
           \A Matched \in {{b \in Blocks : Earlier[b] # {}}} :
           \A At \in {[k \in 1..Len(duplicates) |->
                         <<FileAt(duplicates[k].file), duplicates[k].line>>]} :
              /\ Len(duplicates) = Min(50, Cardinality(Matched))
              /\ \A k \in 1..Len(duplicates) :
                   /\ At[k] \in Matched
                   /\ \E first \in Earlier[At[k]] :
                        /\ \A d \in Earlier[At[k]] : d = first \/ Before(first, d)
                        /\ duplicates[k].similar_to = python_files[first[1]].path
                        /\ duplicates[k].similar_line = first[2]
                   /\ \A b \in Matched : Before(b, At[k]) => \E m \in 1..(k - 1) : At[m] = b
                   /\ \A m \in 1..(k - 1) : Before(At[m], At[k])

\* a file of twelve equal lines: the blocks at lines 7 and 8 are paired with
\* the block at line 1, the blocks at lines 2 to 6 with none
RepeatedBlockPairedWithFirst ==
    /\ scan_pc = "returned"
    /\ Len(python_files) = 1
    /\ Len(LinesOf(1)) = 12
    /\ duplicates = <<[file |-> "a.py", line |-> 7, similar_to |-> "a.py", similar_line |-> 1],
                      [file |-> "a.py", line |-> 8, similar_to |-> "a.py", similar_line |-> 1]>>

(***************************************************************************)
(* Properties of _detect_dead_code (under SpecDead)                        *)
(***************************************************************************)
\* the alias at position a of import node n of the file at position f has
\* an unused_import entry in the list returned
ImportFlagged(f, n, a) ==
    LET node == python_files[f].content.imports[n] IN
    \E k \in 1..Len(dead_code) :
        /\ dead_code[k].type = "unused_import"
        /\ dead_code[k].file = python_files[f].path
        /\ dead_code[k].line = node.lineno
        /\ dead_code[k].name = ImportEntryName(node, node.names[a])

\* C20: an import of a file is flagged as unused exactly when its bound
\* name is not among the usages of that file itself and is neither '*' nor
\* underscore-prefixed, whatever the other files hold.
ImportsFlaggedPerFile ==
    scan_pc = "returned" =>
        \A f \in 1..Len(python_files) :
            python_files[f].content.parses =>
                \A n \in 1..Len(python_files[f].content.imports) :
                    LET node == python_files[f].content.imports[n] IN
                    \A a \in 1..Len(node.names) :
                        LET name == BoundName(node.kind, node.names[a]) IN
                        ImportFlagged(f, n, a)
                            <=> /\ name \notin python_files[f].content.usages
                                /\ name # <<42>>
                                /\ ~StartsWithUnderscore(name)

\* C30: the set of findings does not depend on the order of the files:
\* _detect_dead_code on any reordering of the files that were scanned
\* gives, before the cut at 100, the findings that were returned.
DeadCodeIndependentOfOrder ==
    (scan_pc = "returned" /\ Len(dead_code) < 100) =>
        \A p \in Perms(1..Len(python_files)) :
            Range(DetectDeadCode([i \in 1..Len(python_files) |-> python_files[p[i]]]))
                = Range(dead_code)

(***************************************************************************)
(* Properties of the penalty scores (under SpecScore)                      *)
(***************************************************************************)
\* the result of the dimension that was asked for
Scored == DimGet(results.dimensions, env.dimension)

\* C23: each of the three scores is 100 minus the weighted number of
\* findings, never below 20: 8, 3 and 1 for a high, medium and low
\* performance finding; 15, 5 and 1 for a high, medium and low security
\* finding; 10 for a cycle, 5 for a god class, 3 for a coupling issue and 2
\* for an OCP or DIP violation.  So no findings score 100, and one finding
\* more of any kind never gives a higher score.
ScoresFollowPenaltyModel ==
    pc = "scored" =>
        \A score \in {Scored.score} :
        /\ env.dimension = "performance" =>
             LET f == env.findings
                 penalty == 8 * f.high + 3 * f.medium + 1 * f.low
             IN /\ score = (IF 100 - penalty > 20 THEN 100 - penalty ELSE 20)
                /\ f = NoFindings => score = 100
                /\ \A more \in {[f EXCEPT !.high = @ + 1], [f EXCEPT !.medium = @ + 1],
                                [f EXCEPT !.low = @ + 1]} :
                       PerformanceResult(more).score <= score
        /\ env.dimension = "security" =>
             LET vulns == IF env.bandit = "ok" THEN env.found ELSE NoFindings
                 static == env.other.static
                 high == vulns.high + static.high
                 medium == vulns.medium + static.medium
                 low == vulns.low + static.low
                 penalty == 15 * high + 5 * medium + 1 * low
             IN /\ score = (IF 100 - penalty > 20 THEN 100 - penalty ELSE 20)
                /\ high + medium + low + env.other.safety = 0 => score = 100
                /\ \A more \in {[vulns EXCEPT !.high = @ + 1], [vulns EXCEPT !.medium = @ + 1],
                                [vulns EXCEPT !.low = @ + 1]} :
                       /\ SecurityResult(more, static, env.other.safety).score <= score
                       /\ SecurityResult(static, more, env.other.safety).score <= score
                /\ SecurityResult(vulns, static, env.other.safety + 1).score <= score
        /\ env.dimension = "scalability" =>
             LET f == env.findings
                 cycles == Len(env.deps)
                 penalty == 10 * cycles + 5 * f.god_classes + 3 * f.tight_coupling
                            + 2 * (f.ocp_violations + f.dip_violations)
             IN /\ score = (IF 100 - penalty > 20 THEN 100 - penalty ELSE 20)
                /\ penalty = 0 => score = 100
                /\ ScalabilityResult(Append(env.deps, <<"a", "a">>), f).score <= score
                /\ \A more \in {[f EXCEPT !.god_classes = @ + 1],
                                [f EXCEPT !.tight_coupling = @ + 1],
                                [f EXCEPT !.ocp_violations = @ + 1],
                                [f EXCEPT !.dip_violations = @ + 1]} :
                       ScalabilityResult(env.deps, more).score <= score

\* the performance score of ten high findings has been computed: it is
\* 100 - 80, the lowest score the floor leaves as it is
PerformanceScoreReachesFloor ==
    /\ pc = "scored"
    /\ env.dimension = "performance"
    /\ env.findings = Sev(10, 0, 0)
    /\ Scored.score = 20

(***************************************************************************)
(* Properties of the three detectors of SpecSolid                          *)
(***************************************************************************)
\* the ClassDef nodes of the file at position f
ClassesOf(f) ==
    LET IsClass(node) == node.type = "ClassDef"
    IN IF python_files[f].content.parses
       THEN SelectSeq(Walk(python_files[f].content.tree), IsClass)
       ELSE <<>>

\* the names of the classes instantiated in the __init__ methods of a class
DistinctInitClasses(class) ==
    UNION {{call.func[1].name :
                call \in {c \in Range(Walk(class.body[k])) : IsInstantiation(c)}}
           : k \in {j \in 1..Len(class.body) : IsInit(class.body[j])}}

\* the Assign statements of a class body whose value is an instantiation
ClassLevelInstantiations(class) ==
    {k \in 1..Len(class.body) :
        class.body[k].type = "Assign" /\ IsInstantiation(class.body[k].value[1])}

FlaggedIn(issues, f, class) ==
    \E k \in 1..Len(issues) :
        /\ issues[k].file = python_files[f].path
        /\ issues[k].class = class.name
        /\ issues[k].line = class.lineno

\* C21: a class is flagged as tightly coupled exactly when its __init__
\* instantiates more than 5 distinct capitalized names, however often it
\* calls each of them.
DistinctClassesDecideCoupling ==
    scan_pc = "returned" =>
        \A f \in 1..Len(python_files) :
            \A c \in 1..Len(ClassesOf(f)) :
                LET class == ClassesOf(f)[c] IN
                FlaggedIn(coupling_issues, f, class)
                    <=> Cardinality(DistinctInitClasses(class)) > 5

\* C22: a class is flagged as a DIP violation exactly when its body holds
\* at least 3 class-level instantiations, each instantiation counted once.
InstantiationsDecideDip ==
    scan_pc = "returned" =>
        \A f \in 1..Len(python_files) :
            \A c \in 1..Len(ClassesOf(f)) :
                LET class == ClassesOf(f)[c] IN
                FlaggedIn(dip_violations, f, class)
                    <=> Cardinality(ClassLevelInstantiations(class)) >= 3

\* C25: every reported chain has at least 5 links, a function has at most
\* one violation, and no chain (the If at one line of one file) is in more
\* than one violation.
LongChainReportedOnce ==
    scan_pc = "returned" =>
        /\ \A k \in 1..Len(ocp_violations) : ocp_violations[k].elif_count >= 5
        /\ \A k, m \in 1..Len(ocp_violations) :
             /\ ocp_violations[k].file = ocp_violations[m].file
             /\ \/ ocp_violations[k].function = ocp_violations[m].function
                \/ ocp_violations[k].line = ocp_violations[m].line
             => k = m

(***************************************************************************)
(* Properties of _detect_circular_dependencies (under SpecCycle)           *)
(***************************************************************************)
\* c is a closed import chain of g: pairwise distinct keys of the graph,
\* each importing the next and the last importing the first
IsClosedChain(g, c) ==
    /\ Len(c) >= 1
    /\ \A i, j \in 1..Len(c) : c[i] = c[j] => i = j
    /\ \A i \in 1..Len(c) :
          /\ c[i] \in GraphKeys(g)
          /\ c[(i % Len(c)) + 1] \in Range(g.imports[c[i]])

\* g has a directed cycle among its internal modules
HasCycle(g) ==
    \E K \in (SUBSET GraphKeys(g)) \ {{}} : \E p \in Perms(K) : IsClosedChain(g, p)

\* the edges of g are exactly one simple cycle through all its modules
IsSimpleCycleGraph(g) ==
    /\ g.order # <<>>
    /\ \A k \in GraphKeys(g) : Len(g.imports[k]) = 1
    /\ \E p \in Perms(GraphKeys(g)) : IsClosedChain(g, p)

\* C5: for a graph with no directed cycle among its internal modules, in
\* every key order, the detector does not raise and its list stays empty.
AcyclicGraphGivesNoCycle ==
    ~HasCycle(import_graph) => (cd_pc # "raised" /\ circular_deps = <<>>)

\* a cycle-free graph of three modules with an external import, an internal
\* import and a duplicate import has been searched to the end
AcyclicGraphSearched ==
    /\ cd_pc = "returned"
    /\ ~HasCycle(import_graph)
    /\ Len(import_graph.order) = 3
    /\ \E k \in GraphKeys(import_graph) :
          LET l == import_graph.imports[k] IN
          /\ Len(l) >= 3
          /\ \E i, j \in 1..Len(l) : i # j /\ l[i] = l[j] /\ l[i] \in GraphKeys(import_graph)
          /\ \E i \in 1..Len(l) : l[i] \in External

\* C6: for a graph whose edges are exactly one simple cycle, the detector
\* returns exactly one cycle, made of all the modules of the graph,
\* whichever module the loop starts from.
SimpleCycleFoundOnce ==
    IsSimpleCycleGraph(import_graph) =>
        /\ cd_pc # "raised"
        /\ cd_pc = "returned" =>
              /\ Len(circular_deps) = 1
              /\ Range(circular_deps[1]) = GraphKeys(import_graph)
              /\ Len(circular_deps[1]) = Len(import_graph.order)

\* the cycle a -> b -> c -> a has been searched starting from c
SimpleCycleSearchedFromC ==
    /\ cd_pc = "returned"
    /\ IsSimpleCycleGraph(import_graph)
    /\ import_graph.order = <<"c", "a", "b">>
    /\ import_graph.imports["a"] = <<"b">>
    /\ import_graph.imports["b"] = <<"c">>

\* C7: every reported cycle is a closed import chain of pairwise distinct
\* keys of the graph, and no name outside the graph's keys is ever
\* traversed or reported.
ReportedCyclesAreClosedChains ==
    /\ \A i \in 1..Len(circular_deps) : IsClosedChain(import_graph, circular_deps[i])
    /\ Range(dfs_log) \subseteq GraphKeys(import_graph)
    /\ visited \subseteq GraphKeys(import_graph)

\* a cycle that does not start at the DFS root was reported for a graph
\* that also imports an external module
InnerCycleReported ==
    /\ cd_pc = "returned"
    /\ Len(circular_deps) = 1
    /\ Len(circular_deps[1]) = 2
    /\ import_graph.order[1] \notin Range(circular_deps[1])
    /\ \E k \in GraphKeys(import_graph) :
          Range(import_graph.imports[k]) \cap External # {}

\* C24: during one call each module is expanded (added to visited, its
\* imports iterated) at most once over all the DFS roots, and visited only
\* grows from one root to the next.
EachModuleExpandedOnce ==
    /\ [](/\ \A i, j \in 1..Len(dfs_log) : dfs_log[i] = dfs_log[j] => i = j
          /\ Range(dfs_log) = visited)
    /\ [][/\ visited \subseteq visited'
          /\ SubSeq(dfs_log', 1, Len(dfs_log)) = dfs_log]_vars

\* a module that two other modules import, the second of them under a later
\* root, has been reached twice and expanded once
SharedModuleReachedTwice ==
    /\ cd_pc = "returned"
    /\ import_graph.order = <<"a", "b", "c">>
    /\ import_graph.imports["a"] = <<"b">>
    /\ import_graph.imports["b"] = <<>>
    /\ import_graph.imports["c"] = <<"b", "a">>
    /\ dfs_log = <<"a", "b", "c">>

\* C27: the detector never raises, and between two roots, when the DFS
\* path is empty, rec_stack is empty too (rec_stack holds exactly the
\* modules of the current path).
DetectorNeverRaises ==
    /\ cd_pc # "raised"
    /\ rec_stack = {}

\* C28: for a graph with a directed cycle among its internal modules, in
\* every key order, the detector ends by returning a list that is not
\* empty.
CyclicGraphGivesCycle ==
    (HasCycle(import_graph) /\ cd_pc \in {"returned", "raised"}) =>
        (cd_pc = "returned" /\ circular_deps # <<>>)

====
